---- MODULE Spec2Model ----
(***************************************************************************)
(* A model of the fe / FeX interpreter (src/src/fe.c, src/src/fex.c):      *)
(* the cell arena, the root stack, the mark-sweep collector, the symbol    *)
(* interner and the evaluator, as operators over one threaded record `c`   *)
(* that holds the process memory and the header of the current context.    *)
(***************************************************************************)
EXTENDS Integers, Sequences, FiniteSets, TLC

(***************************************************************************)
(* Program constants.                                                      *)
(***************************************************************************)
GCSTACKSIZE == 1024
GC_GROWTH_FACTOR == 2
GC_INITIAL_DIVISOR == 4
GC_MIN_THRESHOLD == 1024

(***************************************************************************)
(* Universal values are integers: a cell pointer is the cell's address in  *)
(* the process memory (1, 2, ...); the static nil object, the NULL         *)
(* pointer, the two booleans, the reader's rparen object, fixnums and the  *)
(* malloc'ed string buffers are disjoint from every address.               *)
(***************************************************************************)
NIL == 0
FE_FALSE == -1
FE_TRUE == -2
NULLP == -3
RPAREN == -4
FixBase == 1000000
BufBase == -1000

\* the addresses of the two C functions fex_init registers
CFUNC_PRINT == -5
CFUNC_PRINTLN == -6

FE_FIXNUM(n) == FixBase + n
FE_UNBOX_FIXNUM(x) == x - FixBase
FE_IS_FIXNUM(x) == x > FixBase \div 2
FE_IS_BOOLEAN(x) == x = FE_FALSE \/ x = FE_TRUE
isnil(x) == x = NIL
fe_truthy(o) == o # FE_FALSE /\ ~isnil(o)
fe_bool(b) == IF b THEN FE_TRUE ELSE FE_FALSE

BufPtr(k) == BufBase - k
IsBufPtr(p) == p <= BufBase - 1
BufId(p) == BufBase - p

primnames == << "let", "=", "if", "fn", "mac", "while", "return",
                "module", "export", "import", "get",
                "quote", "and", "or", "do", "cons",
                "car", "cdr", "setcar", "setcdr", "list", "not", "is", "atom",
                "print", "<", "<=", "+", "-", "*", "/" >>
P_MAX == Len(primnames)

(***************************************************************************)
(* Memory access.  A cell is [tag, car, cdr]; tag is the type name of      *)
(* typenames[] ("pair" for flags bit 0 clear); the GC mark bit of the      *)
(* flags byte is membership in c.marked.                                   *)
(***************************************************************************)
\* a set as the enumeration of its elements: a union or a difference is
\* otherwise kept unevaluated, and every update would nest it one level deeper
Explicit(S) == { x : x \in S }

\* results: the context, the values, and whether the context has failed
Rec_fv(c, fv) ==
  [c |-> c, fv |-> fv, bad |-> c.err # ""]
Rec_live(c, live) ==
  [c |-> c, live |-> live, bad |-> c.err # ""]
Rec_objs(c, objs) ==
  [c |-> c, objs |-> objs, bad |-> c.err # ""]
Rec_v(c, v) ==
  [c |-> c, v |-> v, bad |-> c.err # ""]
Rec_v_arg(c, v, arg) ==
  [c |-> c, v |-> v, arg |-> arg, bad |-> c.err # ""]
Rec_v_count(c, v, count) ==
  [c |-> c, v |-> v, count |-> count, bad |-> c.err # ""]
Rec_v_pos(c, v, pos) ==
  [c |-> c, v |-> v, pos |-> pos, bad |-> c.err # ""]
Rec_x(c, x) ==
  [c |-> c, x |-> x, bad |-> c.err # ""]

IsCell(c, p) == p \in DOMAIN c.mem
InArena(c, p) == p > c.base /\ p <= c.base + c.object_count

type(c, x) ==
  IF FE_IS_FIXNUM(x) THEN "number"
  ELSE IF FE_IS_BOOLEAN(x) THEN "boolean"
  ELSE IF isnil(x) THEN "nil"
  ELSE IF IsCell(c, x) THEN c.mem[x].tag
  ELSE "wild"

car(c, x) == IF IsCell(c, x) THEN c.mem[x].car ELSE NULLP
cdr(c, x) == IF IsCell(c, x) THEN c.mem[x].cdr ELSE NULLP

\* stores through a pointer; nothing is stored once the operation has failed
setcar(c, x, v) ==
  IF IsCell(c, x) /\ c.err = "" THEN [c EXCEPT !.mem[x].car = v] ELSE c
setcdr(c, x, v) ==
  IF IsCell(c, x) /\ c.err = "" THEN [c EXCEPT !.mem[x].cdr = v] ELSE c
settype(c, x, t) ==
  IF IsCell(c, x) /\ c.err = ""
  THEN [c EXCEPT !.mem[x].tag = t, !.marked = Explicit(@ \ {x})]
  ELSE c

\* FE_STR_DATA: the bytes of the buffer a STRING cell points to
StrData(c, o) ==
  LET p == cdr(c, o)
  IN IF IsBufPtr(p) /\ BufId(p) \in DOMAIN c.bufs THEN c.bufs[BufId(p)].data
     ELSE "?"

streq(c, obj, str) == StrData(c, obj) = str

\* malloc: the lowest buffer that is not live, or a new one
malloc__2(c, data, dead, k) ==
  Rec_v([c EXCEPT !.bufs = IF k > Len(c.bufs) THEN Append(@, ([data |-> data, live |-> TRUE]))
                               ELSE [@ EXCEPT ![k] = ([data |-> data, live |-> TRUE])]],
      BufPtr(k))
malloc__1(c, data, dead) ==
  malloc__2(c, data, dead,
    IF dead = {} THEN Len(c.bufs) + 1
    ELSE CHOOSE j \in dead : \A i \in dead : j <= i)
malloc(c, data) ==
  malloc__1(c, data,
    { k \in DOMAIN c.bufs : ~c.bufs[k].live })

\* free: releasing a buffer that is not live is a double free
free(c, p) ==
  IF IsBufPtr(p) /\ BufId(p) \in DOMAIN c.bufs
  THEN IF c.bufs[BufId(p)].live
       THEN [c EXCEPT !.bufs[BufId(p)].live = FALSE]
       ELSE [c EXCEPT !.dfree = @ + 1]
  ELSE [c EXCEPT !.dfree = @ + 1]

(***************************************************************************)
(* fe_error: resets the call-trail and hands control to the handler; the   *)
(* rest of the running operation is abandoned (c.err is set and every      *)
(* later step of the operation leaves c alone).                            *)
(***************************************************************************)
Failed(c) == c.err # ""

\* fe_error if it left the call-trail as it was
fe_error_keeptrail(c, msg) ==
  IF c.err # "" THEN c
  ELSE [c EXCEPT !.errcl = c.calllist, !.err = msg]

fe_error(c, msg) ==
  IF c.err # "" THEN c
  ELSE [c EXCEPT !.errcl = c.calllist, !.calllist = << >>, !.err = msg]

(***************************************************************************)
(* The root stack.                                                         *)
(***************************************************************************)
fe_savegc(c) == Len(c.gcstack)

\* gcstack_idx = idx: the slots from idx on keep what was stored in them
\* (c.gcabove), and a slot nothing was stored in holds the NULL of fe_open
fe_restoregc__2(c, idx, slots, full) ==
  [c EXCEPT !.gcstack = SubSeq(full, 1, idx),
            !.gcabove = SubSeq(full, idx + 1, Len(full))]
fe_restoregc__1(c, idx, slots) ==
  fe_restoregc__2(c, idx, slots,
    IF idx > Len(slots)
    THEN slots \o [i \in 1..idx - Len(slots) |-> NULLP]
    ELSE slots)
fe_restoregc(c, idx) ==
  CASE c.err # "" \/ idx = Len(c.gcstack) -> c
    [] OTHER -> fe_restoregc__1(c, idx,
           c.gcstack \o c.gcabove)

\* fe_pushgc if the test against GCSTACKSIZE came one push late
fe_pushgc_late(c, obj) ==
  IF c.err # "" THEN c
  ELSE IF FE_IS_FIXNUM(obj) \/ FE_IS_BOOLEAN(obj) \/ obj = NIL THEN c
  ELSE IF Len(c.gcstack) > GCSTACKSIZE THEN fe_error(c, "gc stack overflow")
  ELSE [c EXCEPT !.gcstack = Append(@, obj),
                 !.gcabove = IF @ = << >> THEN @ ELSE Tail(@)]

fe_pushgc(c, obj) ==
  IF c.err # "" THEN c
  ELSE IF FE_IS_FIXNUM(obj) \/ FE_IS_BOOLEAN(obj) \/ obj = NIL THEN c
  ELSE IF Len(c.gcstack) = GCSTACKSIZE THEN fe_error(c, "gc stack overflow")
  ELSE [c EXCEPT !.gcstack = Append(@, obj),
                 !.gcabove = IF @ = << >> THEN @ ELSE Tail(@)]

(***************************************************************************)
(* Mark and sweep.                                                         *)
(***************************************************************************)
\* the cells fe_mark goes on to from a cell it has just marked
\* fe_mark if it went on from pairs, functions and macros only
FollowedNoSymbol(c, x) ==
  IF type(c, x) = "pair" THEN {car(c, x), cdr(c, x)}
  ELSE IF type(c, x) \in {"func", "macro"} THEN {cdr(c, x)}
  ELSE {}

Followed(c, x) ==
  IF type(c, x) = "pair" THEN {car(c, x), cdr(c, x)}
  ELSE IF type(c, x) \in {"func", "macro", "symbol", "string"} THEN {cdr(c, x)}
  ELSE {}

\* one level of fe_mark on every object of `m.objs`: an object outside the
\* arena and a cell whose mark bit is set are left alone; every other cell gets
\* the mark bit, and the objects it refers to are the next ones to visit
MarkStep__1(m, new) ==
  Rec_objs([m.c EXCEPT !.marked = Explicit(@ \cup new)],
      Explicit(UNION { Followed(m.c, x) : x \in new }))
MarkStep(m) ==
  MarkStep__1(m,
    { x \in m.objs : InArena(m.c, x) /\ x \notin m.c.marked })

\* 2^k levels of fe_mark, or fewer when nothing is left to visit
RECURSIVE MarkLevels(_, _)
MarkLevels(m, k) ==
  CASE m.objs = {} -> m
    [] k = 0 -> MarkStep(m)
    [] OTHER -> MarkLevels(MarkLevels(m, k - 1), k - 1)

\* fe_mark to the end of the traversal, 32 levels at a time
RECURSIVE MarkAll(_)
MarkAll(m) ==
  CASE m.objs = {} -> m.c
    [] OTHER -> MarkAll(MarkLevels(m, 5))

MarkFrom(c, objs) == MarkAll([c |-> c, objs |-> objs, bad |-> c.err # ""])

fe_mark(c, obj) == MarkFrom(c, {obj})

\* the sweep loop, `for (i = 0; i < ctx->object_count; i++)`, by what it does to
\* each cell.  A cell typed FREE is skipped.  A cell without the mark bit is
\* reclaimed: the buffer of a string is released, the cell is typed FREE and
\* put at the head of the freelist, so that its cdr is the cell reclaimed just
\* before it (the freelist of before the sweep for the first one).  A cell
\* with the mark bit loses it and is counted as live.
Arena(c) == (c.base + 1)..(c.base + c.object_count)

DeadCells(c) == { x \in Arena(c) : c.mem[x].tag # "free" /\ x \notin c.marked }

LiveCells(c) == { x \in Arena(c) : c.mem[x].tag # "free" /\ x \in c.marked }

\* the cells reclaimed, in the order of the loop
InOrder(c, dead) ==
  SelectSeq([i \in 1..c.object_count |-> c.base + i], LAMBDA x : x \in dead)

\* the head of the freelist when the loop comes to the dead cell x
HeadAt(c, dead, order, x) ==
  IF Cardinality({ y \in dead : y < x }) = 0 THEN c.freelist
  ELSE order[Cardinality({ y \in dead : y < x })]

\* the buffers handed to free() by the loop, one per dead string
Released(c, dead) ==
  { x \in dead : c.mem[x].tag = "string" /\ c.mem[x].cdr # NULLP }

\* the live buffers among them: each is released once, every other call of
\* free() is a double free
Owned(c, strs) ==
  { k \in DOMAIN c.bufs : c.bufs[k].live /\ \E x \in strs : c.mem[x].cdr = BufPtr(k) }

\* (the arena and the buffers are rebuilt as sequences)
SweepAll(c, dead, order, live, strs, owned) ==
  Rec_live([c EXCEPT
            !.mem = SubSeq([x \in DOMAIN c.mem |->
                              IF x \in dead
                              THEN [tag |-> "free", car |-> c.mem[x].car,
                                    cdr |-> HeadAt(c, dead, order, x)]
                              ELSE c.mem[x]], 1, Len(c.mem)),
            !.bufs = SubSeq([k \in DOMAIN c.bufs |->
                               IF k \in owned
                               THEN [c.bufs[k] EXCEPT !.live = FALSE]
                               ELSE c.bufs[k]], 1, Len(c.bufs)),
            !.dfree = @ + Cardinality(strs) - Cardinality(owned),
            !.freelist = IF order = << >> THEN @ ELSE order[Len(order)],
            !.marked = Explicit(@ \ live)],
      Cardinality(live))

Sweep(c) ==
  SweepAll(c, DeadCells(c), InOrder(c, DeadCells(c)), LiveCells(c),
           Released(c, DeadCells(c)),
           Owned(c, Released(c, DeadCells(c))))

\* the roots: gcstack[0 .. gcstack_idx), modulestack, symlist
RootSet(c) ==
  { c.gcstack[i] : i \in 1..Len(c.gcstack) } \cup {c.modulestack, c.symlist}

\* history only: the cells of the arena that the roots lead to through the car
\* and cdr of pairs and the cdr of FUNC, MACRO and SYMBOL cells, whatever the
\* mark bits say
Edges(c, x) ==
  IF type(c, x) = "pair" THEN {car(c, x), cdr(c, x)}
  ELSE IF type(c, x) \in {"func", "macro", "symbol"} THEN {cdr(c, x)}
  ELSE {}

ReachStep__1(c, r, new) ==
  [seen |-> Explicit(r.seen \cup new),
   front |-> Explicit(UNION { Edges(c, x) : x \in new })]
ReachStep(c, r) ==
  ReachStep__1(c, r,
    { x \in r.front : InArena(c, x) /\ x \notin r.seen })

\* 2^k steps away from the cells seen, or fewer when there is nothing new
RECURSIVE ReachLevels(_, _, _)
ReachLevels(c, r, k) ==
  CASE r.front = {} -> r
    [] k = 0 -> ReachStep(c, r)
    [] OTHER -> ReachLevels(c, ReachLevels(c, r, k - 1), k - 1)

RECURSIVE ReachFrom(_, _)
ReachFrom(c, r) ==
  CASE r.front = {} -> r.seen
    [] OTHER -> ReachFrom(c, ReachLevels(c, r, 5))

Reachable(c) == ReachFrom(c, [seen |-> {}, front |-> RootSet(c)])

\* history only: the arena and the roots at one moment
GcSnapshot(c) ==
  [mem |-> c.mem, marked |-> c.marked, freelist |-> c.freelist,
   base |-> c.base, object_count |-> c.object_count,
   roots |-> Explicit(RootSet(c))]

\* history only: the cells of the arena and the roots at one allocation
RootSnapshot(c) ==
  [mem |-> [x \in DOMAIN c.mem |-> [tag |-> c.mem[x].tag, car |-> c.mem[x].car,
                                    cdr |-> c.mem[x].cdr]],
   base |-> c.base, object_count |-> c.object_count,
   roots |-> Explicit(RootSet(c))]

\* history only: the cells the roots of a snapshot lead to
SnapReach(g) == ReachFrom(g, [seen |-> {}, front |-> g.roots])

\* mark the root stack, the module stack and the symbol list, then sweep
collectgarbage__3(c, m, sw, c4) ==
  << m, sw,
     [c4 EXCEPT !.gclog = Append(@, [pre |-> GcSnapshot(c),
                                     post |-> GcSnapshot(c4)])] >>[3]
collectgarbage__2(c, m, sw) ==
  collectgarbage__3(c, m, sw,
    [sw.c EXCEPT !.live_count = sw.live,
                 !.allocs_since_gc = 0,
                 !.gc_threshold = IF (sw.live * GC_GROWTH_FACTOR) < GC_MIN_THRESHOLD
                                  THEN GC_MIN_THRESHOLD ELSE (sw.live * GC_GROWTH_FACTOR),
                 !.ngc = @ + 1])
collectgarbage__1(c, m) ==
  collectgarbage__2(c, m,
    Sweep(m))
collectgarbage(c) ==
  collectgarbage__1(c,
    MarkFrom(c, RootSet(c)))

\* fe_close: gcstack_idx = 0 and symlist = nil, then a collection
fe_close(c) ==
  collectgarbage([fe_restoregc(c, 0) EXCEPT !.symlist = NIL])

(***************************************************************************)
(* Allocation.                                                             *)
(***************************************************************************)
object__4(c, c1, entry, c2, c3) ==
  Rec_v(fe_pushgc(c3, c2.freelist),
      c2.freelist)
object__3(c, c1, entry, c2) ==
  CASE ((c.allocs_since_gc >= c.gc_threshold \/ isnil(c.freelist)) /\ isnil(c1.freelist)) ->
            Rec_v(fe_error(c2, "out of memory"),
                NULLP)
    [] OTHER -> object__4(c, c1, entry, c2,
           [c2 EXCEPT !.freelist = cdr(c2, c2.freelist), !.allocs_since_gc = @ + 1])
object__2(c, c1, entry) ==
  object__3(c, c1, entry,
    [c1 EXCEPT !.alog = Append(@, entry)])
object__1(c, c1) ==
  object__2(c, c1,
    [allocs |-> c.allocs_since_gc, threshold |-> c.gc_threshold,
     freelist |-> c.freelist, collected |-> (c.allocs_since_gc >= c.gc_threshold \/ isnil(c.freelist)), oom |-> ((c.allocs_since_gc >= c.gc_threshold \/ isnil(c.freelist)) /\ isnil(c1.freelist)),
     free_after |-> c1.freelist, cell |-> c1.freelist,
     gc |-> IF (c.allocs_since_gc >= c.gc_threshold \/ isnil(c.freelist)) THEN Len(c1.gclog) ELSE 0,
     traced |-> c.trace, fvs |-> c.fvs, upv |-> c.upv,
     snap |-> IF c.trace \/ c.fvs # {} \/ c.upv # {}
              THEN << RootSnapshot(c) >> ELSE << >>])
object(c) ==
  CASE c.err # "" -> [c |-> c, v |-> NULLP, bad |-> c.err # ""]
    [] OTHER -> object__1(c,
           IF (c.allocs_since_gc >= c.gc_threshold \/ isnil(c.freelist)) THEN collectgarbage(c) ELSE c)

fe_cons__1(c, a, d, o) ==
  CASE o.bad -> [c |-> o.c, v |-> NULLP, bad |-> o.c.err # ""]
    [] OTHER ->
            Rec_v([o.c EXCEPT !.mem[o.v] = [tag |-> "pair", car |-> a, cdr |-> d],
                               !.marked = Explicit(@ \ {o.v})],
                o.v)
fe_cons(c, a, d) ==
  fe_cons__1(c, a, d,
    object(c))

make_string_obj__3(c, src, o, b, c2) ==
  Rec_v(setcdr(c2, o.v, b.v),
      o.v)
make_string_obj__2(c, src, o, b) ==
  make_string_obj__3(c, src, o, b,
    setcar(b.c, o.v, FE_FIXNUM(Len(src))))
make_string_obj__1(c, src, o) ==
  CASE o.bad -> [c |-> o.c, v |-> NULLP, bad |-> o.c.err # ""]
    [] OTHER -> make_string_obj__2(c, src, o,
           malloc(settype(o.c, o.v, "string"), src))
make_string_obj(c, src) ==
  make_string_obj__1(c, src,
    object(c))

fe_string(c, str) == make_string_obj(c, str)

\* the pair cells of a list in order, `for (p = list; !isnil(p); p = cdr(p))`;
\* the walk ends at nil, at an object that is no cell, and when it has seen
\* more cells than the process holds (a cyclic list)
ListEnds(c, p) == isnil(p) \/ ~IsCell(c, p)

\* p after k passes of the loop
RECURSIVE ListSkip(_, _, _)
ListSkip(c, p, k) ==
  CASE p = NIL -> p
    [] k = 0 \/ ~IsCell(c, p) -> p
    [] k = 1 -> cdr(c, p)
    [] OTHER -> ListSkip(c, ListSkip(c, p, k \div 2), k - k \div 2)

\* the cells of the first k passes of the loop
RECURSIVE ListFirst(_, _, _)
ListFirst(c, p, k) ==
  CASE p = NIL -> << >>
    [] k = 0 \/ ~IsCell(c, p) -> << >>
    [] k = 1 -> << p >>
    [] OTHER -> ListFirst(c, p, k \div 2)
                  \o ListFirst(c, ListSkip(c, p, k \div 2), k - k \div 2)

ListCells(c, p, acc) == acc \o ListFirst(c, p, Len(c.mem) + 1)

\* the first position of a sequence of cells at which Test holds, 0 when none
Lowest(hits) ==
  IF hits = {} THEN 0 ELSE CHOOSE i \in hits : \A j \in hits : i <= j

FirstAt(cells, Test(_)) == Lowest({ i \in 1..Len(cells) : Test(cells[i]) })

\* for (obj = ctx->symlist; !isnil(obj); obj = cdr(obj))
\*   if (streq(car(cdr(car(obj))), name)) return car(obj);
\* the search of fe_symbol if it never found a name
FindNoSymbol(c, obj, name) == NULLP

FindSymbol__2(c, obj, name, cells, i) ==
  CASE i = 0 -> NULLP
    [] OTHER -> car(c, cells[i])
FindSymbol__1(c, obj, name, cells) ==
  FindSymbol__2(c, obj, name, cells,
    FirstAt(cells, LAMBDA p : streq(c, car(c, cdr(c, car(c, p))), name)))
FindSymbol(c, obj, name) ==
  FindSymbol__1(c, obj, name,
    ListCells(c, obj, << >>))

\* history of the calls: the cells fe_symbol has returned for each name, and
\* whether a (name, cell) pair has been returned more than once
LogSymbol__1(c, name, v, same) ==
  [c EXCEPT !.syms = Explicit((@ \ same) \cup
                     {[name |-> name, cell |-> v, again |-> same # {}]})]
LogSymbol(c, name, v) ==
  LogSymbol__1(c, name, v,
    { e \in c.syms : e.name = name /\ e.cell = v })

fe_symbol__4(c, name, found, o, s, p, l) ==
  CASE l.bad -> [c |-> l.c, v |-> NULLP, bad |-> l.c.err # ""]
    [] OTHER -> Rec_v(LogSymbol([l.c EXCEPT !.symlist = l.v], name, o.v),
                    o.v)
fe_symbol__3(c, name, found, o, s, p) ==
  CASE p.bad -> [c |-> p.c, v |-> NULLP, bad |-> p.c.err # ""]
    [] OTHER -> fe_symbol__4(c, name, found, o, s, p,
           fe_cons(setcdr(p.c, o.v, p.v), o.v, p.c.symlist))
fe_symbol__2(c, name, found, o, s) ==
  CASE s.bad -> [c |-> s.c, v |-> NULLP, bad |-> s.c.err # ""]
    [] OTHER -> fe_symbol__3(c, name, found, o, s,
           fe_cons(s.c, s.v, NIL))
fe_symbol__1(c, name, found, o) ==
  CASE found # NULLP -> Rec_v(LogSymbol(c, name, found),
                            found)
    [] o.bad -> [c |-> o.c, v |-> NULLP, bad |-> o.c.err # ""]
    [] OTHER -> fe_symbol__2(c, name, found, o,
           fe_string(settype(o.c, o.v, "symbol"), name))
fe_symbol(c, name) ==
  CASE c.err # "" -> [c |-> c, v |-> NULLP, bad |-> c.err # ""]
    [] OTHER -> fe_symbol__1(c, name,
           FindSymbol(c, c.symlist, name),
           object(c))

(***************************************************************************)
(* Argument access and type checks.                                        *)
(***************************************************************************)
fe_cfunc__1(c, fn, o) ==
  CASE o.bad -> [c |-> o.c, v |-> NULLP, bad |-> o.c.err # ""]
    [] OTHER -> Rec_v(setcdr(settype(o.c, o.v, "cfunc"), o.v, fn),
                    o.v)
fe_cfunc(c, fn) ==
  fe_cfunc__1(c, fn,
    object(c))

typenames == << "pair", "free", "nil", "number", "symbol", "string",
                "func", "macro", "prim", "cfunc", "ptr", "boolean" >>

fe_nextarg(c, arg) ==
  IF c.err # "" THEN [c |-> c, v |-> NULLP, arg |-> arg, bad |-> c.err # ""]
  ELSE IF type(c, arg) # "pair"
  THEN Rec_v_arg(fe_error(c, IF isnil(arg) THEN "too few arguments"
                          ELSE "dotted pair in argument list"),
           NULLP,
           arg)
  ELSE [c |-> c, v |-> car(c, arg), arg |-> cdr(c, arg), bad |-> c.err # ""]

checktype(c, obj, t) ==
  IF c.err # "" THEN c
  ELSE IF t = "number" /\ FE_IS_FIXNUM(obj) THEN c
  ELSE IF type(c, obj) # t
  THEN fe_error(c, "expected " \o t \o ", got " \o type(c, obj))
  ELSE c

checknum(c, obj) == IF FE_IS_FIXNUM(obj) THEN c ELSE checktype(c, obj, "number")

\* fe_num_value: the number of a fixnum, or the cdr.n field of a boxed cell
nval(c, o) == IF FE_IS_FIXNUM(o) THEN FE_UNBOX_FIXNUM(o) ELSE cdr(c, o)

fe_number__1(c, n, o) ==
  CASE o.bad -> [c |-> o.c, v |-> NULLP, bad |-> o.c.err # ""]
    [] OTHER -> Rec_v(setcdr(settype(o.c, o.v, "number"), o.v, n),
                    o.v)
fe_number(c, n) ==
  fe_number__1(c, n,
    object(c))

\* fe_Number values are modelled on the integers, all of which fit a fixnum
fe_make_number(c, n) == [c |-> c, v |-> FE_FIXNUM(n), bad |-> c.err # ""]

fe_car__1(c, obj, c1) ==
  [c |-> c1, v |-> IF c1.err # "" THEN NULLP ELSE car(c, obj), bad |-> c1.err # ""]
fe_car(c, obj) ==
  CASE isnil(obj) -> [c |-> c, v |-> obj, bad |-> c.err # ""]
    [] OTHER -> fe_car__1(c, obj,
           checktype(c, obj, "pair"))

fe_cdr__1(c, obj, c1) ==
  [c |-> c1, v |-> IF c1.err # "" THEN NULLP ELSE cdr(c, obj), bad |-> c1.err # ""]
fe_cdr(c, obj) ==
  CASE isnil(obj) -> [c |-> c, v |-> obj, bad |-> c.err # ""]
    [] OTHER -> fe_cdr__1(c, obj,
           checktype(c, obj, "pair"))

is_return_obj(c, obj) ==
  type(c, obj) = "pair" /\ car(c, obj) = c.st.return_sym

equal(c, a, b) ==
  IF a = b THEN TRUE
  ELSE IF type(c, a) # type(c, b) THEN FALSE
  ELSE IF type(c, a) = "number" THEN nval(c, a) = nval(c, b)
  ELSE IF type(c, a) = "string"
  THEN car(c, a) = car(c, b) /\ StrData(c, a) = StrData(c, b)
  ELSE FALSE

(***************************************************************************)
(* fe_write: the text written for a value.  `qt` asks for quoted strings;  *)
(* `fuel` bounds the walk through a structure.                             *)
(***************************************************************************)
\* the characters the STRING case emits for the bytes `s`, between the quotes
\* when qt is set: a backslash goes before every double quote
WrittenChars(s) ==
  IF s = "a\"b" THEN "a\\\"b" ELSE s

RECURSIVE fe_write(_, _, _, _)
RECURSIVE WriteList(_, _, _)

\* for (;;) { fe_write(car(obj), 1); obj = cdr(obj); if (type(obj) != PAIR) break; ' ' }
WriteList__1(c, obj, fuel, head) ==
  CASE type(c, cdr(c, obj)) = "pair" ->
            head \o " " \o WriteList(c, cdr(c, obj), fuel - 1)
    [] isnil(cdr(c, obj)) -> head
    [] OTHER -> head \o " . " \o fe_write(c, cdr(c, obj), TRUE, fuel - 1)
WriteList(c, obj, fuel) ==
  CASE fuel = 0 -> "..."
    [] OTHER -> WriteList__1(c, obj, fuel,
           fe_write(c, car(c, obj), TRUE, fuel - 1))

fe_write(c, obj, qt, fuel) ==
  LET ty == type(c, obj)
  IN CASE fuel = 0 -> "..."
       [] ty = "nil" -> "nil"
       [] ty = "boolean" -> IF obj = FE_TRUE THEN "true" ELSE "false"
       [] ty = "number" -> ToString(nval(c, obj))
       [] ty = "pair" /\ car(c, obj) = c.st.frame_sym -> "[env frame]"
       [] ty = "pair" -> "(" \o WriteList(c, obj, fuel) \o ")"
       [] ty = "symbol" -> fe_write(c, car(c, cdr(c, obj)), FALSE, fuel - 1)
       [] ty = "string" /\ qt -> "\"" \o WrittenChars(StrData(c, obj)) \o "\""
       [] ty = "string" -> StrData(c, obj)
       [] OTHER -> "[" \o ty \o " " \o ToString(obj) \o "]"

(***************************************************************************)
(* Environments.  The list walks of list_has and getbound are bounded by   *)
(* the size of the memory (a walk through reclaimed cells may be cyclic).  *)
(***************************************************************************)
\* list_has if it compared the cells of the list with the item
list_has_cell(c, list, item) ==
  FirstAt(ListCells(c, list, << >>), LAMBDA p : p = item) # 0

list_has(c, list, item) ==
  FirstAt(ListCells(c, list, << >>), LAMBDA p : car(c, p) = item) # 0

\* for (p = list; !isnil(p); p = cdr(p)) { x = car(p); if (car(x) == sym) return x; }
FindBinding__2(c, list, sym, cells, i) ==
  CASE i = 0 -> NULLP
    [] OTHER -> car(c, cells[i])
FindBinding__1(c, list, sym, cells) ==
  FindBinding__2(c, list, sym, cells,
    FirstAt(cells, LAMBDA p : car(c, car(c, p)) = sym))
FindBinding(c, list, sym) ==
  FindBinding__1(c, list, sym,
    ListCells(c, list, << >>))

\* the first of the bindings found: locals, then upvalues, then the global
FirstBound(l, u, g) ==
  IF l # NULLP THEN l ELSE IF u # NULLP THEN u ELSE g

getbound(c, sym, env) ==
  IF type(c, env) = "pair" /\ car(c, env) = c.st.frame_sym
  THEN FirstBound(FindBinding(c, car(c, cdr(c, env)), sym),
                  FindBinding(c, cdr(c, cdr(c, env)), sym), cdr(c, sym))
  ELSE FirstBound(FindBinding(c, env, sym), NULLP, cdr(c, sym))

fe_set(c, sym, v) == setcdr(c, getbound(c, sym, NIL), v)

(***************************************************************************)
(* The reader.  The character stream is given as its sequence of lexemes   *)
(* ("(", ")", "'", a numeral, a string literal, a word); read_ consumes    *)
(* them from position `pos` and builds the datum cell by cell.             *)
(***************************************************************************)
Numerals == << "0", "1", "2", "3", "4", "5", "6", "7", "8", "9" >>
IsNumeral(t) == \E i \in 1..Len(Numerals) : Numerals[i] = t
\* strtod
NumeralValue(t) == (CHOOSE i \in 1..Len(Numerals) : Numerals[i] = t) - 1

\* string literals of the inputs: the lexeme and the characters between the quotes
StringLiterals == << [lex |-> "\"m\"", chars |-> "m"],
                     [lex |-> "\"a\"", chars |-> "a"],
                     [lex |-> "\"o\"", chars |-> "o"],
                     [lex |-> "\"i\"", chars |-> "i"],
                     [lex |-> "\"e\"", chars |-> "e"] >>
IsStringLiteral(t) == \E i \in 1..Len(StringLiterals) : StringLiterals[i].lex = t
LiteralChars(t) ==
  StringLiterals[CHOOSE i \in 1..Len(StringLiterals) :
                   StringLiterals[i].lex = t].chars

\* the state of the loop of case '(' after one pass
ReadMore(c, res, pos, last) ==
  [c |-> c, v |-> res, pos |-> pos, last |-> last, more |-> TRUE, bad |-> c.err # ""]
ReadEnd(c, v, pos) ==
  [c |-> c, v |-> v, pos |-> pos, last |-> NULLP, more |-> FALSE, bad |-> c.err # ""]

RECURSIVE read_(_, _, _)
RECURSIVE ReadList(_, _, _)

fe_read__1(c, toks, pos, r) ==
  CASE r.bad -> r
    [] r.v = RPAREN ->
            Rec_v_pos(fe_error(r.c, "stray ')'"),
                NULLP,
                r.pos)
    [] OTHER -> r
fe_read(c, toks, pos) ==
  fe_read__1(c, toks, pos,
    read_(c, toks, pos))

\* the name of the symbol that marks a dotted pair
DotName == "."

\* one pass through the loop of case '(': `res` is the list so far, `last`
\* the cell whose cdr `tail` points to (NULLP while tail = &res); `more`
\* tells whether the loop goes on
ReadElem__4(c, toks, pos, gc, res, last, r, dot, d, k, c1, c2) ==
  CASE c2.err # "" -> ReadEnd(c2, NULLP, r.pos)
    [] dot ->
            ReadMore(c2, (IF last = NULLP THEN (IF dot THEN d ELSE k).v ELSE res), d.pos, last)
    [] OTHER ->
            ReadMore(c2, (IF last = NULLP THEN (IF dot THEN d ELSE k).v ELSE res), r.pos, k.v)
ReadElem__3(c, toks, pos, gc, res, last, r, dot, d, k, c1) ==
  ReadElem__4(c, toks, pos, gc, res, last, r, dot, d, k, c1,
    fe_pushgc(fe_restoregc(c1, gc), (IF last = NULLP THEN (IF dot THEN d ELSE k).v ELSE res)))
ReadElem__2(c, toks, pos, gc, res, last, r, dot, d, k) ==
  CASE Failed((IF dot THEN d ELSE k).c) ->
            ReadEnd((IF dot THEN d ELSE k).c, NULLP, r.pos)
    [] OTHER -> ReadElem__3(c, toks, pos, gc, res, last, r, dot, d, k,
           IF last = NULLP THEN (IF dot THEN d ELSE k).c ELSE setcdr((IF dot THEN d ELSE k).c, last, (IF dot THEN d ELSE k).v))
ReadElem__1(c, toks, pos, gc, res, last, r) ==
  CASE r.bad -> ReadEnd(r.c, NULLP, r.pos)
    [] r.v = RPAREN -> ReadEnd(r.c, res, r.pos)
    [] r.v = NULLP -> ReadEnd(fe_error(r.c, "unclosed list"), NULLP, r.pos)
    [] OTHER -> ReadElem__2(c, toks, pos, gc, res, last, r,
           type(r.c, r.v) = "symbol" /\ streq(r.c, car(r.c, cdr(r.c, r.v)), DotName),
           fe_read(r.c, toks, r.pos),
           fe_cons(r.c, r.v, NIL))
ReadElem(c, toks, pos, gc, res, last) ==
  ReadElem__1(c, toks, pos, gc, res, last,
    read_(c, toks, pos))

\* while ((v = read_(ctx, fn, udata)) != &rparen)
ReadList(toks, gc, s) ==
  IF s.more
  THEN ReadList(toks, gc, ReadElem(s.c, toks, s.pos, gc, s.v, s.last))
  ELSE [c |-> s.c, v |-> s.v, pos |-> s.pos, bad |-> s.c.err # ""]

\* case '\'': fe_cons(fe_symbol("quote"), fe_cons(v, nil))
ReadQuote__4(c, toks, pos, r, q, k, l) ==
  [c |-> l.c, v |-> l.v, pos |-> r.pos, bad |-> l.c.err # ""]
ReadQuote__3(c, toks, pos, r, q, k) ==
  CASE k.bad -> [c |-> k.c, v |-> NULLP, pos |-> r.pos, bad |-> k.c.err # ""]
    [] OTHER -> ReadQuote__4(c, toks, pos, r, q, k,
           fe_cons(k.c, q.v, k.v))
ReadQuote__2(c, toks, pos, r, q) ==
  CASE q.bad -> [c |-> q.c, v |-> NULLP, pos |-> r.pos, bad |-> q.c.err # ""]
    [] OTHER -> ReadQuote__3(c, toks, pos, r, q,
           fe_cons(q.c, r.v, NIL))
ReadQuote__1(c, toks, pos, r) ==
  CASE r.bad -> [c |-> r.c, v |-> NULLP, pos |-> r.pos, bad |-> r.c.err # ""]
    [] r.v = NULLP ->
            Rec_v_pos(fe_error(r.c, "stray '''"),
                NULLP,
                r.pos)
    [] OTHER -> ReadQuote__2(c, toks, pos, r,
           fe_symbol(r.c, "quote"))
ReadQuote(c, toks, pos) ==
  ReadQuote__1(c, toks, pos,
    fe_read(c, toks, pos + 1))

\* case '"': the scratch buffer `buf` is kept (never freed); the string
\* object gets its own copy of the characters
ReadString__2(c, t, pos, b, o) ==
  [c |-> o.c, v |-> o.v, pos |-> pos + 1, bad |-> o.c.err # ""]
ReadString__1(c, t, pos, b) ==
  ReadString__2(c, t, pos, b,
    make_string_obj(b.c, LiteralChars(t)))
ReadString(c, t, pos) ==
  ReadString__1(c, t, pos,
    malloc(c, ""))

ReadSymbol__1(c, t, pos, y) ==
  [c |-> y.c, v |-> y.v, pos |-> pos + 1, bad |-> y.c.err # ""]
ReadSymbol(c, t, pos) ==
  ReadSymbol__1(c, t, pos,
    fe_symbol(c, t))

read_(c, toks, pos) ==
  CASE c.err # "" -> [c |-> c, v |-> NULLP, pos |-> pos, bad |-> c.err # ""]
    [] pos > Len(toks) -> [c |-> c, v |-> NULLP, pos |-> pos, bad |-> c.err # ""]
    [] toks[pos] = ")" -> [c |-> c, v |-> RPAREN, pos |-> pos + 1, bad |-> c.err # ""]
    [] toks[pos] = "(" ->
         ReadList(toks, fe_savegc(c), ReadMore(fe_pushgc(c, NIL), NIL, pos + 1, NULLP))
    [] toks[pos] = "'" -> ReadQuote(c, toks, pos)
    [] IsStringLiteral(toks[pos]) -> ReadString(c, toks[pos], pos)
    [] IsNumeral(toks[pos]) ->
         [c |-> c, v |-> fe_make_number(c, NumeralValue(toks[pos])).v,
          pos |-> pos + 1, bad |-> c.err # ""]
    [] toks[pos] = "nil" -> [c |-> c, v |-> NIL, pos |-> pos + 1, bad |-> c.err # ""]
    [] toks[pos] = "true" -> [c |-> c, v |-> FE_TRUE, pos |-> pos + 1, bad |-> c.err # ""]
    [] toks[pos] = "false" -> [c |-> c, v |-> FE_FALSE, pos |-> pos + 1, bad |-> c.err # ""]
    [] OTHER -> ReadSymbol(c, toks[pos], pos)

(***************************************************************************)
(* Free-variable analysis of a function body.  `fv` is *free_vars.         *)
(* History only: while P_FN analyses a body (c.fvon), c.fvs holds the      *)
(* cells of its free-variable list built so far; the list of a nested      *)
(* fn/mac form (inner_free) is not part of it.                             *)
(* Reading through a pointer that is no cell (NULL, an immediate) ends the *)
(* process.                                                                *)
(***************************************************************************)
Crash(c) == IF c.err # "" THEN c ELSE [c EXCEPT !.err = "SIGSEGV"]

\* for (p = params; !isnil(p); p = cdr(p)) bound = fe_cons(ctx, car(p), bound);
\* c.prd holds the types of the cells p that the loop has read
RECURSIVE ConsParams(_, _, _, _)
ConsParams__1(c, p, bound, fuel, k) ==
  CASE k.bad -> [c |-> k.c, v |-> bound, bad |-> k.c.err # ""]
    [] OTHER -> ConsParams([k.c EXCEPT !.prd = Explicit(@ \cup {type(c, p)})],
                           cdr(k.c, p), k.v, fuel - 1)
ConsParams(c, p, bound, fuel) ==
  CASE c.err # "" \/ isnil(p) -> [c |-> c, v |-> bound, bad |-> c.err # ""]
    [] ~IsCell(c, p) -> Rec_v(Crash(c),
                            bound)
    [] fuel = 0 -> Rec_v(fe_error(c, "out of memory"),
                       bound)
    [] OTHER -> ConsParams__1(c, p, bound, fuel,
           fe_cons(c, car(c, p), bound))

RECURSIVE analyze(_, _, _, _)
RECURSIVE AnalyzeDo(_, _, _, _, _)
RECURSIVE AnalyzeEach(_, _, _, _)
RECURSIVE AnalyzeArgs(_, _, _, _)

\* the loop of the `do` branch; local_bound grows with every (let var expr)
AnalyzeDo__3(c, p, local_bound, fv, gc, a, k, c1) ==
  CASE c1.err # "" -> [c |-> c1, fv |-> a.fv, bad |-> c1.err # ""]
    [] OTHER -> AnalyzeDo(c1, cdr(c1, p), k.v, a.fv, gc)
AnalyzeDo__2(c, p, local_bound, fv, gc, a, k) ==
  CASE k.bad -> [c |-> k.c, fv |-> a.fv, bad |-> k.c.err # ""]
    [] OTHER -> AnalyzeDo__3(c, p, local_bound, fv, gc, a, k,
           fe_pushgc(fe_restoregc(k.c, gc), k.v))
AnalyzeDo__1(c, p, local_bound, fv, gc, a) ==
  CASE a.bad -> a
    [] ~(type(c, car(c, p)) = "pair" /\ car(c, car(c, p)) = c.st.let_sym) ->
            AnalyzeDo(a.c, cdr(a.c, p), local_bound, a.fv, gc)
    [] OTHER -> AnalyzeDo__2(c, p, local_bound, fv, gc, a,
           fe_cons(a.c, car(c, cdr(c, car(c, p))), local_bound))
AnalyzeDo(c, p, local_bound, fv, gc) ==
  CASE c.err # "" \/ isnil(p) -> [c |-> c, fv |-> fv, bad |-> c.err # ""]
    [] ~IsCell(c, p) -> Rec_fv(Crash(c),
                            fv)
    [] OTHER -> AnalyzeDo__1(c, p, local_bound, fv, gc,
           analyze(c, IF (type(c, car(c, p)) = "pair" /\ car(c, car(c, p)) = c.st.let_sym) THEN car(c, cdr(c, cdr(c, car(c, p)))) ELSE car(c, p), local_bound, fv))

\* for (p = inner_free; !isnil(p); p = cdr(p)) analyze(ctx, car(p), bound, free_vars);
AnalyzeEach__1(c, p, bound, fv, a) ==
  CASE a.bad -> a
    [] OTHER -> AnalyzeEach(a.c, cdr(a.c, p), bound, a.fv)
AnalyzeEach(c, p, bound, fv) ==
  CASE c.err # "" \/ isnil(p) -> [c |-> c, fv |-> fv, bad |-> c.err # ""]
    [] ~IsCell(c, p) -> Rec_fv(Crash(c),
                            fv)
    [] OTHER -> AnalyzeEach__1(c, p, bound, fv,
           analyze(c, car(c, p), bound, fv))

\* the argument loop of the generic case
AnalyzeArgs__1(c, p, bound, fv, a) ==
  CASE a.bad -> a
    [] OTHER -> AnalyzeArgs(a.c, cdr(a.c, p), bound, a.fv)
AnalyzeArgs(c, p, bound, fv) ==
  CASE c.err # "" \/ isnil(p) -> [c |-> c, fv |-> fv, bad |-> c.err # ""]
    [] type(c, p) # "pair" -> analyze(c, p, bound, fv)
    [] OTHER -> AnalyzeArgs__1(c, p, bound, fv,
           analyze(c, car(c, p), bound, fv))

analyze__3(c, node, bound, fv, k, d, ib, a, inner, e) ==
  CASE (car(c, node) = c.st.fn_sym \/ car(c, node) = c.st.mac_sym) /\ e.bad ->
            e
    [] (car(c, node) = c.st.fn_sym \/ car(c, node) = c.st.mac_sym) ->
            Rec_fv(fe_restoregc(e.c, fe_savegc(c)),
                e.fv)
    [] a.bad -> a
    [] OTHER -> AnalyzeArgs(a.c, cdr(c, node), bound, a.fv)
analyze__2(c, node, bound, fv, k, d, ib, a, inner) ==
  CASE (car(c, node) = c.st.fn_sym \/ car(c, node) = c.st.mac_sym) /\ inner.bad ->
            [c |-> inner.c, fv |-> fv, bad |-> inner.c.err # ""]
    [] OTHER -> analyze__3(c, node, bound, fv, k, d, ib, a, inner,
           AnalyzeEach(fe_pushgc(fe_restoregc([inner.c EXCEPT !.fvon = c.fvon],
                                              fe_savegc(c)), inner.fv),
                       inner.fv, bound, fv))
analyze__1(c, node, bound, fv, k, d, ib, a) ==
  CASE type(c, node) = "symbol" /\ ~list_has(c, bound, node)
                                /\ ~list_has(c, fv, node) ->
            Rec_fv(IF k.c.fvon /\ ~Failed(k.c)
                   THEN [k.c EXCEPT !.fvs = Explicit(@ \cup {k.v})] ELSE k.c,
                IF k.bad THEN fv ELSE k.v)
    [] type(c, node) # "pair" -> [c |-> c, fv |-> fv, bad |-> c.err # ""]
    [] car(c, node) = c.st.quote_sym -> [c |-> c, fv |-> fv, bad |-> c.err # ""]
    [] car(c, node) = c.st.do_sym /\ d.bad -> d
    [] car(c, node) = c.st.do_sym ->
            Rec_fv(fe_restoregc(d.c, fe_savegc(c)),
                d.fv)
    [] (car(c, node) = c.st.fn_sym \/ car(c, node) = c.st.mac_sym) /\ ib.bad ->
            [c |-> ib.c, fv |-> fv, bad |-> ib.c.err # ""]
    [] OTHER -> analyze__2(c, node, bound, fv, k, d, ib, a,
           analyze([ib.c EXCEPT !.fvon = FALSE], car(c, cdr(c, cdr(c, node))),
                   ib.v, NIL))
analyze(c, node, bound, fv) ==
  CASE c.err # "" -> [c |-> c, fv |-> fv, bad |-> c.err # ""]
    [] OTHER -> analyze__1(c, node, bound, fv,
           fe_cons(c, node, fv),
           AnalyzeDo(fe_pushgc(c, bound), cdr(c, node), bound, fv, fe_savegc(c)),
           ConsParams(c, car(c, cdr(c, node)), NIL, Len(c.mem)),
           analyze(c, car(c, node), bound, fv))

(***************************************************************************)
(* The evaluator.  eval returns the context, the value and the value of    *)
(* *newenv (the caller's env when newenv is NULL).                         *)
(***************************************************************************)
MaxIter == 3

R(c, v, env) == [c |-> c, v |-> v, env |-> env, bad |-> c.err # ""]

\* a `while` that is still running after MaxIter iterations: the call does
\* not return
NoReturn(c) == IF c.err # "" THEN c ELSE [c EXCEPT !.err = "<running>"]

RECURSIVE eval(_, _, _, _)
RECURSIVE evallist(_, _, _, _, _)
RECURSIVE DoLoop(_, _, _, _, _, _)
RECURSIVE argstoenv(_, _, _, _)
RECURSIVE IfLoop(_, _, _)
RECURSIVE WhileLoop(_, _, _, _, _, _)
RECURSIVE AndOrLoop(_, _, _, _, _)
RECURSIVE ArithLoop(_, _, _, _, _)
RECURSIVE PrintLoop(_, _, _)
RECURSIVE BuildUpvals(_, _, _, _)

\* evalarg(): eval(ctx, fe_nextarg(ctx, &arg), env, NULL)
evalarg__2(c, arg, env, a, e) ==
  [c |-> e.c, v |-> e.v, arg |-> a.arg, bad |-> e.c.err # ""]
evalarg__1(c, arg, env, a) ==
  evalarg__2(c, arg, env, a,
    eval(a.c, a.v, env, FALSE))
evalarg(c, arg, env) ==
  evalarg__1(c, arg, env,
    fe_nextarg(c, arg))

\* evallist: `res` is the list so far, `last` the cell `tail` points into
evallist__3(c, lst, env, res, last, e, k, c1) ==
  evallist(c1, e.arg, env,
           IF last = NULLP THEN k.v ELSE res, k.v)
evallist__2(c, lst, env, res, last, e, k) ==
  CASE k.bad -> [c |-> k.c, v |-> NULLP, bad |-> k.c.err # ""]
    [] OTHER -> evallist__3(c, lst, env, res, last, e, k,
           IF last = NULLP THEN k.c ELSE setcdr(k.c, last, k.v))
evallist__1(c, lst, env, res, last, e) ==
  CASE e.bad -> [c |-> e.c, v |-> NULLP, bad |-> e.c.err # ""]
    [] OTHER -> evallist__2(c, lst, env, res, last, e,
           fe_cons(e.c, e.v, NIL))
evallist(c, lst, env, res, last) ==
  CASE c.err # "" \/ isnil(lst) -> [c |-> c, v |-> res, bad |-> c.err # ""]
    [] OTHER -> evallist__1(c, lst, env, res, last,
           evalarg(c, lst, env))

\* dolist: the loop with `save` taken on entry; `env0` is the caller's
\* environment, which the loop leaves as it is (the statements extend the
\* local copy `env`)
DoLoop__2(c, lst, env, save, res, env0, a, e) ==
  CASE e.bad -> R(e.c, NULLP, env0)
    [] is_return_obj(e.c, e.v) -> R(e.c, e.v, env0)
    [] OTHER -> DoLoop(e.c, a.arg, e.env, save, e.v, env0)
DoLoop__1(c, lst, env, save, res, env0, a) ==
  DoLoop__2(c, lst, env, save, res, env0, a,
    eval(a.c, a.v, env, TRUE))
DoLoop(c, lst, env, save, res, env0) ==
  CASE c.err # "" \/ isnil(lst) -> R(c, res, env0)
    [] OTHER -> DoLoop__1(c, lst, env, save, res, env0,
           fe_nextarg(fe_pushgc(fe_pushgc(fe_restoregc(c, save), lst), env),
                      lst))

dolist(c, lst, env) == DoLoop(c, lst, env, fe_savegc(c), NIL, env)

argstoenv__4(c, prm, arg, env, rest, a, b, k, d) ==
  CASE d.bad -> [c |-> d.c, v |-> NULLP, bad |-> d.c.err # ""]
    [] OTHER -> argstoenv(d.c, cdr(d.c, prm), d.v, k.v)
argstoenv__3(c, prm, arg, env, rest, a, b, k) ==
  CASE k.bad -> [c |-> k.c, v |-> NULLP, bad |-> k.c.err # ""]
    [] OTHER -> argstoenv__4(c, prm, arg, env, rest, a, b, k,
           fe_cdr(k.c, arg))
argstoenv__2(c, prm, arg, env, rest, a, b) ==
  CASE b.bad -> [c |-> b.c, v |-> NULLP, bad |-> b.c.err # ""]
    [] OTHER -> argstoenv__3(c, prm, arg, env, rest, a, b,
           fe_cons(b.c, b.v, env))
argstoenv__1(c, prm, arg, env, rest, a) ==
  CASE type(c, prm) # "pair" /\ rest.bad -> [c |-> rest.c, v |-> NULLP, bad |-> rest.c.err # ""]
    [] type(c, prm) # "pair" -> fe_cons(rest.c, rest.v, env)
    [] OTHER -> argstoenv__2(c, prm, arg, env, rest, a,
           fe_cons(a.c, car(c, prm), a.v))
argstoenv(c, prm, arg, env) ==
  CASE c.err # "" \/ isnil(prm) -> [c |-> c, v |-> env, bad |-> c.err # ""]
    [] OTHER -> argstoenv__1(c, prm, arg, env,
           fe_cons(c, prm, arg),
           fe_car(c, arg))

\* the loop below if it consed a copy of each binding cell
RECURSIVE BuildUpvalsCopy(_, _, _, _)
BuildUpvalsCopy__3(c, p, def_env, upvals, b, copy, k) ==
  CASE k.bad -> [c |-> k.c, v |-> NULLP, bad |-> k.c.err # ""]
    [] OTHER -> BuildUpvalsCopy(k.c, cdr(k.c, p), def_env, k.v)
BuildUpvalsCopy__2(c, p, def_env, upvals, b, copy) ==
  CASE copy.bad -> [c |-> copy.c, v |-> NULLP, bad |-> copy.c.err # ""]
    [] OTHER -> BuildUpvalsCopy__3(c, p, def_env, upvals, b, copy,
           fe_cons(copy.c, copy.v, upvals))
BuildUpvalsCopy__1(c, p, def_env, upvals, b) ==
  BuildUpvalsCopy__2(c, p, def_env, upvals, b,
    fe_cons(c, car(c, b), cdr(c, b)))
BuildUpvalsCopy(c, p, def_env, upvals) ==
  CASE c.err # "" \/ isnil(p) -> [c |-> c, v |-> upvals, bad |-> c.err # ""]
    [] ~IsCell(c, p) -> Rec_v(Crash(c),
                            upvals)
    [] OTHER -> BuildUpvalsCopy__1(c, p, def_env, upvals,
           getbound(c, car(c, p), def_env))

\* for (p = free_vars; !isnil(p); p = cdr(p))
\*   upvals = fe_cons(ctx, getbound(car(p), def_env), upvals);
BuildUpvals__1(c, p, def_env, upvals, k) ==
  CASE k.bad -> [c |-> k.c, v |-> NULLP, bad |-> k.c.err # ""]
    [] OTHER -> BuildUpvals(k.c, cdr(k.c, p), def_env, k.v)
BuildUpvals(c, p, def_env, upvals) ==
  CASE c.err # "" \/ isnil(p) -> [c |-> c, v |-> upvals, bad |-> c.err # ""]
    [] ~IsCell(c, p) -> Rec_v(Crash(c),
                            upvals)
    [] OTHER -> BuildUpvals__1(c, p, def_env, upvals,
           fe_cons(c, getbound(c, car(c, p), def_env), upvals))

\* P_IF: the loop over (cond then cond then ... else)
IfLoop__2(c, arg, env, va, e) ==
  CASE fe_truthy(va.v) -> R(e.c, e.v, env)
    [] isnil(va.arg) -> R(va.c, NIL, env)
    [] OTHER -> IfLoop(va.c, cdr(va.c, va.arg), env)
IfLoop__1(c, arg, env, va) ==
  CASE va.bad -> R(va.c, NULLP, env)
    [] fe_truthy(va.v) /\ isnil(va.arg) -> R(va.c, va.v, env)
    [] OTHER -> IfLoop__2(c, arg, env, va,
           evalarg(va.c, va.arg, env))
IfLoop(c, arg, env) ==
  CASE c.err # "" \/ isnil(arg) -> R(c, NIL, env)
    [] OTHER -> IfLoop__1(c, arg, env,
           evalarg(c, arg, env))

\* P_WHILE: while (fe_truthy(eval(va))) { dolist(arg); fe_restoregc(n); }
WhileLoop__2(c, va, arg, env, n, fuel, t, d) ==
  CASE d.bad -> d.c
    [] OTHER -> WhileLoop(fe_restoregc(d.c, n), va, arg, env, n, fuel - 1)
WhileLoop__1(c, va, arg, env, n, fuel, t) ==
  CASE t.bad -> t.c
    [] ~fe_truthy(t.v) -> t.c
    [] fuel = 0 -> NoReturn(t.c)
    [] OTHER -> WhileLoop__2(c, va, arg, env, n, fuel, t,
           dolist(t.c, arg, env))
WhileLoop(c, va, arg, env, n, fuel) ==
  CASE c.err # "" -> c
    [] OTHER -> WhileLoop__1(c, va, arg, env, n, fuel,
           eval(c, va, env, FALSE))

\* P_AND (stop = FALSE) and P_OR (stop = TRUE):
\* while (!isnil(arg) && fe_truthy(res = evalarg()) != stop);
AndOrLoop__1(c, arg, env, res, stop, e) ==
  CASE e.bad -> R(e.c, NULLP, env)
    [] fe_truthy(e.v) = stop -> R(e.c, e.v, env)
    [] OTHER -> AndOrLoop(e.c, e.arg, env, e.v, stop)
AndOrLoop(c, arg, env, res, stop) ==
  CASE c.err # "" \/ isnil(arg) -> R(c, res, env)
    [] OTHER -> AndOrLoop__1(c, arg, env, res, stop,
           evalarg(c, arg, env))

\* the operators of arithop on the modelled numbers; a quotient that is no
\* integer is outside the modelled numbers
ArithDefined(op, x, y) ==
  op # "/" \/ (y # 0 /\ x % (IF y > 0 THEN y ELSE 0 - y) = 0)
ArithApply(op, x, y) ==
  CASE op = "+" -> x + y
    [] op = "-" -> x - y
    [] op = "*" -> x * y
    [] y > 0 -> x \div y
    [] OTHER -> 0 - (x \div (0 - y))

\* while (!isnil(arg)) x = x op nval(checknum(ctx, evalarg()));
ArithLoop__3(c, arg, env, x, op, e, c1, y) ==
  CASE ~ArithDefined(op, x, y) ->
            Rec_x(fe_error(c1, "<number outside the model>"),
                x)
    [] OTHER -> ArithLoop(c1, e.arg, env, ArithApply(op, x, y), op)
ArithLoop__2(c, arg, env, x, op, e, c1) ==
  CASE c1.err # "" -> [c |-> c1, x |-> x, bad |-> c1.err # ""]
    [] OTHER -> ArithLoop__3(c, arg, env, x, op, e, c1,
           nval(c1, e.v))
ArithLoop__1(c, arg, env, x, op, e) ==
  CASE e.bad -> [c |-> e.c, x |-> x, bad |-> e.c.err # ""]
    [] OTHER -> ArithLoop__2(c, arg, env, x, op, e,
           checknum(e.c, e.v))
ArithLoop(c, arg, env, x, op) ==
  CASE c.err # "" \/ isnil(arg) -> [c |-> c, x |-> x, bad |-> c.err # ""]
    [] OTHER -> ArithLoop__1(c, arg, env, x, op,
           evalarg(c, arg, env))

arithop__3(c, arg, env, op, e, c1, l) ==
  CASE l.bad -> R(l.c, NULLP, env)
    [] OTHER -> R(l.c, fe_make_number(l.c, l.x).v, env)
arithop__2(c, arg, env, op, e, c1) ==
  arithop__3(c, arg, env, op, e, c1,
    ArithLoop(c1, e.arg, env, nval(c1, e.v), op))
arithop__1(c, arg, env, op, e) ==
  CASE e.bad -> R(e.c, NULLP, env)
    [] OTHER -> arithop__2(c, arg, env, op, e,
           checknum(e.c, e.v))
arithop(c, arg, env, op) ==
  arithop__1(c, arg, env, op,
    evalarg(c, arg, env))

numcmpop__3(c, arg, env, op, a, b, c2) ==
  CASE c2.err # "" -> R(c2, NULLP, env)
    [] OTHER -> R(c2, fe_bool(IF op = "<" THEN nval(c2, a.v) < nval(c2, b.v)
                              ELSE nval(c2, a.v) <= nval(c2, b.v)), env)
numcmpop__2(c, arg, env, op, a, b) ==
  CASE b.bad -> R(b.c, NULLP, env)
    [] OTHER -> numcmpop__3(c, arg, env, op, a, b,
           checknum(b.c, b.v))
numcmpop__1(c, arg, env, op, a) ==
  CASE a.bad -> R(a.c, NULLP, env)
    [] OTHER -> numcmpop__2(c, arg, env, op, a,
           evalarg(checknum(a.c, a.v), a.arg, env))
numcmpop(c, arg, env, op) ==
  numcmpop__1(c, arg, env, op,
    evalarg(c, arg, env))

\* P_PRINT: every argument is evaluated and written to stdout, then "\n"
PrintLoop__2(c, arg, env, e, text) ==
  PrintLoop([e.c EXCEPT !.stdout =
               @ \o text \o (IF isnil(e.arg) THEN "" ELSE " ")],
            e.arg, env)
PrintLoop__1(c, arg, env, e) ==
  CASE e.bad -> e.c
    [] OTHER -> PrintLoop__2(c, arg, env, e,
           fe_write(e.c, e.v, FALSE, Len(e.c.mem)))
PrintLoop(c, arg, env) ==
  CASE c.err # "" -> c
    [] isnil(arg) -> [c EXCEPT !.stdout = @ \o "\n"]
    [] OTHER -> PrintLoop__1(c, arg, env,
           evalarg(c, arg, env))

\* fe_tostring into a buffer that is large enough
fe_tostring(c, obj) == fe_write(c, obj, FALSE, Len(c.mem))

P_MODULE__9(c, arg0, env, n, b, g, k, e, c2, c3, y, c4) ==
  R(c4, car(e.c, e.c.modulestack), env)
P_MODULE__8(c, arg0, env, n, b, g, k, e, c2, c3, y) ==
  CASE y.bad -> R(y.c, NULLP, env)
    [] OTHER -> P_MODULE__9(c, arg0, env, n, b, g, k, e, c2, c3, y,
           fe_set(y.c, y.v, car(e.c, e.c.modulestack)))
P_MODULE__7(c, arg0, env, n, b, g, k, e, c2, c3) ==
  P_MODULE__8(c, arg0, env, n, b, g, k, e, c2, c3,
    fe_symbol(c3, fe_tostring(c3, n.v)))
P_MODULE__6(c, arg0, env, n, b, g, k, e, c2) ==
  P_MODULE__7(c, arg0, env, n, b, g, k, e, c2,
    checktype(c2, n.v, "string"))
P_MODULE__5(c, arg0, env, n, b, g, k, e) ==
  CASE e.bad -> R(e.c, NULLP, env)
    [] OTHER -> P_MODULE__6(c, arg0, env, n, b, g, k, e,
           [e.c EXCEPT !.modulestack = cdr(e.c, e.c.modulestack)])
P_MODULE__4(c, arg0, env, n, b, g, k) ==
  CASE k.bad -> R(k.c, NULLP, env)
    [] OTHER -> P_MODULE__5(c, arg0, env, n, b, g, k,
           eval([k.c EXCEPT !.modulestack = k.v], b.v, env, TRUE))
P_MODULE__3(c, arg0, env, n, b, g) ==
  P_MODULE__4(c, arg0, env, n, b, g,
    fe_cons(g, NIL, g.modulestack))
P_MODULE__2(c, arg0, env, n, b) ==
  P_MODULE__3(c, arg0, env, n, b,
    fe_pushgc(b.c, NIL))
P_MODULE__1(c, arg0, env, n) ==
  CASE n.bad -> R(n.c, NULLP, env)
    [] OTHER -> P_MODULE__2(c, arg0, env, n,
           fe_nextarg(n.c, n.arg))
P_MODULE(c, arg0, env) ==
  P_MODULE__1(c, arg0, env,
    evalarg(c, arg0, env))

\* P_EXPORT without `car(ctx->modulestack) = exports`
P_EXPORT_nostore__8(c, arg0, env, c0, d, d1, nm, e, binding, x, k) ==
  CASE k.bad -> R(k.c, NULLP, env)
    [] OTHER -> R(k.c, e.v, env)
P_EXPORT_nostore__7(c, arg0, env, c0, d, d1, nm, e, binding, x) ==
  P_EXPORT_nostore__8(c, arg0, env, c0, d, d1, nm, e, binding, x,
    fe_cons(x.c, binding.v, x.v))
P_EXPORT_nostore__6(c, arg0, env, c0, d, d1, nm, e, binding) ==
  CASE binding.bad -> R(binding.c, NULLP, env)
    [] OTHER -> P_EXPORT_nostore__7(c, arg0, env, c0, d, d1, nm, e, binding,
           fe_car(binding.c, binding.c.modulestack))
P_EXPORT_nostore__5(c, arg0, env, c0, d, d1, nm, e) ==
  CASE e.bad -> R(e.c, NULLP, env)
    [] OTHER -> P_EXPORT_nostore__6(c, arg0, env, c0, d, d1, nm, e,
           fe_cons(e.c, nm.v, e.v))
P_EXPORT_nostore__4(c, arg0, env, c0, d, d1, nm) ==
  P_EXPORT_nostore__5(c, arg0, env, c0, d, d1, nm,
    eval(checktype(nm.c, nm.v, "symbol"), d.v, env, TRUE))
P_EXPORT_nostore__3(c, arg0, env, c0, d, d1) ==
  P_EXPORT_nostore__4(c, arg0, env, c0, d, d1,
    fe_car(d1.c, d1.v))
P_EXPORT_nostore__2(c, arg0, env, c0, d) ==
  P_EXPORT_nostore__3(c, arg0, env, c0, d,
    fe_cdr(d.c, d.v))
P_EXPORT_nostore__1(c, arg0, env, c0) ==
  P_EXPORT_nostore__2(c, arg0, env, c0,
    fe_nextarg(c0, arg0))
P_EXPORT_nostore(c, arg0, env) ==
  P_EXPORT_nostore__1(c, arg0, env,
    IF isnil(c.modulestack)
    THEN fe_error(c, "export outside of module") ELSE c)

P_EXPORT__8(c, arg0, env, c0, d, d1, nm, e, binding, x, k) ==
  CASE k.bad -> R(k.c, NULLP, env)
    [] OTHER -> R(setcar(k.c, k.c.modulestack, k.v), e.v, env)
P_EXPORT__7(c, arg0, env, c0, d, d1, nm, e, binding, x) ==
  P_EXPORT__8(c, arg0, env, c0, d, d1, nm, e, binding, x,
    fe_cons(x.c, binding.v, x.v))
P_EXPORT__6(c, arg0, env, c0, d, d1, nm, e, binding) ==
  CASE binding.bad -> R(binding.c, NULLP, env)
    [] OTHER -> P_EXPORT__7(c, arg0, env, c0, d, d1, nm, e, binding,
           fe_car(binding.c, binding.c.modulestack))
P_EXPORT__5(c, arg0, env, c0, d, d1, nm, e) ==
  CASE e.bad -> R(e.c, NULLP, env)
    [] OTHER -> P_EXPORT__6(c, arg0, env, c0, d, d1, nm, e,
           fe_cons(e.c, nm.v, e.v))
P_EXPORT__4(c, arg0, env, c0, d, d1, nm) ==
  P_EXPORT__5(c, arg0, env, c0, d, d1, nm,
    eval(checktype(nm.c, nm.v, "symbol"), d.v, env, TRUE))
P_EXPORT__3(c, arg0, env, c0, d, d1) ==
  P_EXPORT__4(c, arg0, env, c0, d, d1,
    fe_car(d1.c, d1.v))
P_EXPORT__2(c, arg0, env, c0, d) ==
  P_EXPORT__3(c, arg0, env, c0, d,
    fe_cdr(d.c, d.v))
P_EXPORT__1(c, arg0, env, c0) ==
  P_EXPORT__2(c, arg0, env, c0,
    fe_nextarg(c0, arg0))
P_EXPORT(c, arg0, env) ==
  P_EXPORT__1(c, arg0, env,
    IF isnil(c.modulestack)
    THEN fe_error(c, "export outside of module") ELSE c)

P_GET__3(c, arg0, env, va, vb, c1) ==
  CASE c1.err # "" -> R(c1, NULLP, env)
    [] OTHER -> R(c1, cdr(c1, getbound(c1, vb.v, va.v)), env)
P_GET__2(c, arg0, env, va, vb) ==
  P_GET__3(c, arg0, env, va, vb,
    checktype(vb.c, vb.v, "symbol"))
P_GET__1(c, arg0, env, va) ==
  CASE va.bad -> R(va.c, NULLP, env)
    [] OTHER -> P_GET__2(c, arg0, env, va,
           fe_nextarg(va.c, va.arg))
P_GET(c, arg0, env) ==
  P_GET__1(c, arg0, env,
    evalarg(c, arg0, env))

P_RETURN__2(c, arg0, env, va, k) ==
  R(k.c, k.v, env)
P_RETURN__1(c, arg0, env, va) ==
  CASE va.bad -> R(va.c, NULLP, env)
    [] OTHER -> P_RETURN__2(c, arg0, env, va,
           fe_cons(va.c, va.c.st.return_sym, va.v))
P_RETURN(c, arg0, env) ==
  P_RETURN__1(c, arg0, env,
    IF isnil(arg0) THEN [c |-> c, v |-> NIL, arg |-> arg0, bad |-> c.err # ""]
    ELSE evalarg(c, arg0, env))

P_LET__7(c, arg0, env, hasnew, s, x, binding, gval, nl, al, f1, f2, val) ==
  CASE hasnew /\ val.bad -> R(val.c, NULLP, env)
    [] hasnew ->
            R(setcdr(val.c, binding.v, val.v), val.v, (IF (type(binding.c, env) = "pair" /\ car(binding.c, env) = binding.c.st.frame_sym) THEN f2 ELSE al).v)
    [] gval.bad -> R(gval.c, NULLP, env)
    [] OTHER -> R(fe_set(gval.c, s.v, gval.v), gval.v, env)
P_LET__6(c, arg0, env, hasnew, s, x, binding, gval, nl, al, f1, f2) ==
  CASE hasnew /\ Failed((IF (type(binding.c, env) = "pair" /\ car(binding.c, env) = binding.c.st.frame_sym) THEN f2 ELSE al).c) ->
            R((IF (type(binding.c, env) = "pair" /\ car(binding.c, env) = binding.c.st.frame_sym) THEN f2 ELSE al).c, NULLP, env)
    [] OTHER -> P_LET__7(
           c, arg0, env, hasnew, s, x, binding, gval, nl, al, f1, f2,
           eval((IF (type(binding.c, env) = "pair" /\ car(binding.c, env) = binding.c.st.frame_sym) THEN f2 ELSE al).c, x.v, (IF (type(binding.c, env) = "pair" /\ car(binding.c, env) = binding.c.st.frame_sym) THEN f2 ELSE al).v, FALSE))
P_LET__5(c, arg0, env, hasnew, s, x, binding, gval, nl, al, f1) ==
  CASE hasnew /\ (type(binding.c, env) = "pair" /\ car(binding.c, env) = binding.c.st.frame_sym) /\ f1.bad ->
            R(f1.c, NULLP, env)
    [] OTHER -> P_LET__6(c, arg0, env, hasnew, s, x, binding, gval, nl, al, f1,
           fe_cons(f1.c, f1.c.st.frame_sym, f1.v))
P_LET__4(c, arg0, env, hasnew, s, x, binding, gval, nl, al) ==
  CASE hasnew /\ (type(binding.c, env) = "pair" /\ car(binding.c, env) = binding.c.st.frame_sym) /\ nl.bad ->
            R(nl.c, NULLP, env)
    [] OTHER -> P_LET__5(c, arg0, env, hasnew, s, x, binding, gval, nl, al,
           fe_cons(nl.c, nl.v, cdr(binding.c, cdr(binding.c, env))))
P_LET__3(c, arg0, env, hasnew, s, x, binding, gval) ==
  CASE hasnew /\ binding.bad -> R(binding.c, NULLP, env)
    [] OTHER -> P_LET__4(c, arg0, env, hasnew, s, x, binding, gval,
           fe_cons(binding.c, binding.v, car(binding.c, cdr(binding.c, env))),
           fe_cons(binding.c, binding.v, env))
P_LET__2(c, arg0, env, hasnew, s, x) ==
  CASE x.bad -> R(x.c, NULLP, env)
    [] OTHER -> P_LET__3(c, arg0, env, hasnew, s, x,
           fe_cons(x.c, s.v, NIL),
           eval(x.c, x.v, env, FALSE))
P_LET__1(c, arg0, env, hasnew, s) ==
  P_LET__2(c, arg0, env, hasnew, s,
    fe_nextarg(checktype(s.c, s.v, "symbol"), s.arg))
P_LET(c, arg0, env, hasnew) ==
  P_LET__1(c, arg0, env, hasnew,
    fe_nextarg(c, arg0))

P_SET__2(c, arg0, env, s, e) ==
  CASE e.bad -> R(e.c, NULLP, env)
    [] OTHER -> R(setcdr(e.c, getbound(e.c, s.v, env), e.v), NIL, env)
P_SET__1(c, arg0, env, s) ==
  P_SET__2(c, arg0, env, s,
    evalarg(checktype(s.c, s.v, "symbol"), s.arg, env))
P_SET(c, arg0, env) ==
  P_SET__1(c, arg0, env,
    fe_nextarg(c, arg0))

P_FN__11(c, arg0, env, ismac, pa, bo, bound, an, c1, c2, v1, v2, v3, v4, res) ==
  CASE res.bad -> R(res.c, NULLP, env)
    [] OTHER ->
            R(setcdr(settype(res.c, res.v, IF ismac THEN "macro" ELSE "func"),
                     res.v, v4.v),
              res.v, env)
P_FN__10(c, arg0, env, ismac, pa, bo, bound, an, c1, c2, v1, v2, v3, v4) ==
  CASE v4.bad -> R(v4.c, NULLP, env)
    [] OTHER -> P_FN__11(
           c, arg0, env, ismac, pa, bo, bound, an, c1, c2, v1, v2, v3, v4,
           object(v4.c))
P_FN__9(c, arg0, env, ismac, pa, bo, bound, an, c1, c2, v1, v2, v3) ==
  CASE v3.bad -> R(v3.c, NULLP, env)
    [] OTHER -> P_FN__10(
           c, arg0, env, ismac, pa, bo, bound, an, c1, c2, v1, v2, v3,
           fe_cons(v3.c, env, v3.v))
P_FN__8(c, arg0, env, ismac, pa, bo, bound, an, c1, c2, v1, v2) ==
  CASE v2.bad -> R(v2.c, NULLP, env)
    [] OTHER -> P_FN__9(c, arg0, env, ismac, pa, bo, bound, an, c1, c2, v1, v2,
           fe_cons(v2.c, an.fv, v2.v))
P_FN__7(c, arg0, env, ismac, pa, bo, bound, an, c1, c2, v1) ==
  CASE v1.bad -> R(v1.c, NULLP, env)
    [] OTHER -> P_FN__8(c, arg0, env, ismac, pa, bo, bound, an, c1, c2, v1,
           fe_cons(v1.c, pa.v, v1.v))
P_FN__6(c, arg0, env, ismac, pa, bo, bound, an, c1, c2) ==
  P_FN__7(c, arg0, env, ismac, pa, bo, bound, an, c1, c2,
    fe_cons(c2, bo.v, NIL))
P_FN__5(c, arg0, env, ismac, pa, bo, bound, an, c1) ==
  P_FN__6(c, arg0, env, ismac, pa, bo, bound, an, c1,
    fe_pushgc(fe_pushgc(fe_pushgc(fe_pushgc(c1, an.fv), pa.v),
                        bo.v), env))
P_FN__4(c, arg0, env, ismac, pa, bo, bound, an) ==
  CASE an.bad -> R([an.c EXCEPT !.fvon = FALSE, !.fvs = {}], NULLP, env)
    [] OTHER -> P_FN__5(c, arg0, env, ismac, pa, bo, bound, an,
           fe_restoregc([an.c EXCEPT !.fvon = FALSE, !.fvs = {}], fe_savegc(bo.c)))
P_FN__3(c, arg0, env, ismac, pa, bo, bound) ==
  CASE bound.bad -> R(bound.c, NULLP, env)
    [] OTHER -> P_FN__4(c, arg0, env, ismac, pa, bo, bound,
           analyze([bound.c EXCEPT !.fvon = TRUE], bo.v, bound.v, NIL))
P_FN__2(c, arg0, env, ismac, pa, bo) ==
  CASE bo.bad -> R(bo.c, NULLP, env)
    [] OTHER -> P_FN__3(c, arg0, env, ismac, pa, bo,
           ConsParams(bo.c, pa.v, NIL, Len(c.mem)))
P_FN__1(c, arg0, env, ismac, pa) ==
  P_FN__2(c, arg0, env, ismac, pa,
    fe_car(pa.c, pa.arg))
P_FN(c, arg0, env, ismac) ==
  P_FN__1(c, arg0, env, ismac,
    fe_nextarg(c, arg0))

P_WHILE__1(c, arg0, env, va) ==
  R(WhileLoop(va.c, va.v, va.arg, env, fe_savegc(va.c), MaxIter), NIL, env)
P_WHILE(c, arg0, env) ==
  P_WHILE__1(c, arg0, env,
    fe_nextarg(c, arg0))

P_QUOTE__1(c, arg0, env, q) ==
  R(q.c, q.v, env)
P_QUOTE(c, arg0, env) ==
  P_QUOTE__1(c, arg0, env,
    fe_nextarg(c, arg0))

P_DO(c, arg0, env) == dolist(c, arg0, env)

P_CONS__3(c, arg0, env, va, vb, k) ==
  R(k.c, k.v, env)
P_CONS__2(c, arg0, env, va, vb) ==
  CASE vb.bad -> R(vb.c, NULLP, env)
    [] OTHER -> P_CONS__3(c, arg0, env, va, vb,
           fe_cons(vb.c, va.v, vb.v))
P_CONS__1(c, arg0, env, va) ==
  CASE va.bad -> R(va.c, NULLP, env)
    [] OTHER -> P_CONS__2(c, arg0, env, va,
           evalarg(va.c, va.arg, env))
P_CONS(c, arg0, env) ==
  P_CONS__1(c, arg0, env,
    evalarg(c, arg0, env))

P_CAR__2(c, arg0, env, va, x) ==
  R(x.c, x.v, env)
P_CAR__1(c, arg0, env, va) ==
  P_CAR__2(c, arg0, env, va,
    fe_car(va.c, va.v))
P_CAR(c, arg0, env) ==
  P_CAR__1(c, arg0, env,
    evalarg(c, arg0, env))

P_CDR__2(c, arg0, env, va, x) ==
  R(x.c, x.v, env)
P_CDR__1(c, arg0, env, va) ==
  P_CDR__2(c, arg0, env, va,
    fe_cdr(va.c, va.v))
P_CDR(c, arg0, env) ==
  P_CDR__1(c, arg0, env,
    evalarg(c, arg0, env))

P_SETCAR__2(c, arg0, env, va, vb) ==
  R(setcar(vb.c, va.v, vb.v), NIL, env)
P_SETCAR__1(c, arg0, env, va) ==
  CASE va.bad -> R(va.c, NULLP, env)
    [] OTHER -> P_SETCAR__2(c, arg0, env, va,
           evalarg(checktype(va.c, va.v, "pair"), va.arg, env))
P_SETCAR(c, arg0, env) ==
  P_SETCAR__1(c, arg0, env,
    evalarg(c, arg0, env))

P_SETCDR__2(c, arg0, env, va, vb) ==
  R(setcdr(vb.c, va.v, vb.v), NIL, env)
P_SETCDR__1(c, arg0, env, va) ==
  CASE va.bad -> R(va.c, NULLP, env)
    [] OTHER -> P_SETCDR__2(c, arg0, env, va,
           evalarg(checktype(va.c, va.v, "pair"), va.arg, env))
P_SETCDR(c, arg0, env) ==
  P_SETCDR__1(c, arg0, env,
    evalarg(c, arg0, env))

P_LIST__1(c, arg0, env, l) ==
  R(l.c, l.v, env)
P_LIST(c, arg0, env) ==
  P_LIST__1(c, arg0, env,
    evallist(c, arg0, env, NIL, NULLP))

P_NOT__1(c, arg0, env, va) ==
  R(va.c, fe_bool(~fe_truthy(va.v)), env)
P_NOT(c, arg0, env) ==
  P_NOT__1(c, arg0, env,
    evalarg(c, arg0, env))

P_IS__2(c, arg0, env, va, vb) ==
  R(vb.c, fe_bool(equal(vb.c, va.v, vb.v)), env)
P_IS__1(c, arg0, env, va) ==
  CASE va.bad -> R(va.c, NULLP, env)
    [] OTHER -> P_IS__2(c, arg0, env, va,
           evalarg(va.c, va.arg, env))
P_IS(c, arg0, env) ==
  P_IS__1(c, arg0, env,
    evalarg(c, arg0, env))

P_ATOM__1(c, arg0, env, va) ==
  R(va.c, fe_bool(type(va.c, va.v) # "pair"), env)
P_ATOM(c, arg0, env) ==
  P_ATOM__1(c, arg0, env,
    evalarg(c, arg0, env))

P_SUB__4(c, arg0, env, e, c1, x, l) ==
  CASE l.bad -> R(l.c, NULLP, env)
    [] OTHER -> R(l.c, FE_FIXNUM(l.x), env)
P_SUB__3(c, arg0, env, e, c1, x) ==
  CASE isnil(e.arg) -> R(c1, FE_FIXNUM(0 - x), env)
    [] OTHER -> P_SUB__4(c, arg0, env, e, c1, x,
           ArithLoop(c1, e.arg, env, x, "-"))
P_SUB__2(c, arg0, env, e, c1) ==
  CASE c1.err # "" -> R(c1, NULLP, env)
    [] OTHER -> P_SUB__3(c, arg0, env, e, c1,
           nval(c1, e.v))
P_SUB__1(c, arg0, env, e) ==
  CASE e.bad -> R(e.c, NULLP, env)
    [] OTHER -> P_SUB__2(c, arg0, env, e,
           checknum(e.c, e.v))
P_SUB(c, arg0, env) ==
  CASE isnil(arg0) -> R(c, FE_FIXNUM(0), env)
    [] OTHER -> P_SUB__1(c, arg0, env,
           evalarg(c, arg0, env))

\* switch (prim(fn)): `p` is the name of the primitive in primnames
EvalPrim(c, p, arg, env, hasnew) ==
  CASE p = "module" -> P_MODULE(c, arg, env)
    [] p = "export" -> P_EXPORT(c, arg, env)
    [] p = "import" -> R(c, NIL, env)
    [] p = "get" -> P_GET(c, arg, env)
    [] p = "return" -> P_RETURN(c, arg, env)
    [] p = "let" -> P_LET(c, arg, env, hasnew)
    [] p = "=" -> P_SET(c, arg, env)
    [] p = "if" -> IfLoop(c, arg, env)
    [] p = "fn" -> P_FN(c, arg, env, FALSE)
    [] p = "mac" -> P_FN(c, arg, env, TRUE)
    [] p = "while" -> P_WHILE(c, arg, env)
    [] p = "quote" -> P_QUOTE(c, arg, env)
    [] p = "and" -> AndOrLoop(c, arg, env, NIL, FALSE)
    [] p = "or" -> AndOrLoop(c, arg, env, NIL, TRUE)
    [] p = "do" -> P_DO(c, arg, env)
    [] p = "cons" -> P_CONS(c, arg, env)
    [] p = "car" -> P_CAR(c, arg, env)
    [] p = "cdr" -> P_CDR(c, arg, env)
    [] p = "setcar" -> P_SETCAR(c, arg, env)
    [] p = "setcdr" -> P_SETCDR(c, arg, env)
    [] p = "list" -> P_LIST(c, arg, env)
    [] p = "not" -> P_NOT(c, arg, env)
    [] p = "is" -> P_IS(c, arg, env)
    [] p = "atom" -> P_ATOM(c, arg, env)
    [] p = "print" -> R(PrintLoop(c, arg, env), NIL, env)
    [] p = "<" \/ p = "<=" -> numcmpop(c, arg, env, p)
    [] p = "-" -> P_SUB(c, arg, env)
    [] OTHER -> arithop(c, arg, env, p)

\* case FE_TFUNC from `fn_guts = cdr(fn)` to the frame
\* (frame_sym . (locals . upvals)); `args` is the list of evaluated arguments
FuncFrame__5(c0, fn, args, u, c1, locals, f1, frame) ==
  frame
FuncFrame__4(c0, fn, args, u, c1, locals, f1) ==
  CASE f1.bad -> [c |-> f1.c, v |-> NULLP, bad |-> f1.c.err # ""]
    [] OTHER -> FuncFrame__5(c0, fn, args, u, c1, locals, f1,
           fe_cons(f1.c, f1.c.st.frame_sym, f1.v))
FuncFrame__3(c0, fn, args, u, c1, locals) ==
  CASE locals.bad -> [c |-> locals.c, v |-> NULLP, bad |-> locals.c.err # ""]
    [] OTHER -> FuncFrame__4(c0, fn, args, u, c1, locals,
           fe_cons(locals.c, locals.v, u.v))
FuncFrame__2(c0, fn, args, u, c1) ==
  FuncFrame__3(c0, fn, args, u, c1,
    argstoenv(c1, car(c0, cdr(c0, cdr(c0, cdr(c0, fn)))), args, NIL))
FuncFrame__1(c0, fn, args, u) ==
  CASE u.bad -> [c |-> u.c, v |-> NULLP, bad |-> u.c.err # ""]
    [] OTHER -> FuncFrame__2(c0, fn, args, u,
           fe_pushgc(fe_pushgc(fe_restoregc(u.c, fe_savegc(c0)), u.v), args))
FuncFrame(c0, fn, args) ==
  FuncFrame__1(c0, fn, args,
    BuildUpvals(fe_pushgc(c0, car(c0, cdr(c0, fn))), car(c0, cdr(c0, cdr(c0, fn))), car(c0, cdr(c0, fn)), NIL))

\* case FE_TFUNC
EvalFunc__3(c, fn, arg0, env, a, frame, d) ==
  CASE d.bad -> R(d.c, NULLP, env)
    [] is_return_obj(d.c, d.v) -> R(d.c, cdr(d.c, d.v), env)
    [] OTHER -> R(d.c, d.v, env)
EvalFunc__2(c, fn, arg0, env, a, frame) ==
  CASE frame.bad -> R(frame.c, NULLP, env)
    [] OTHER -> EvalFunc__3(c, fn, arg0, env, a, frame,
           dolist(frame.c, cdr(a.c, cdr(a.c, cdr(a.c, cdr(a.c, fn)))), frame.v))
EvalFunc__1(c, fn, arg0, env, a) ==
  CASE a.bad -> R(a.c, NULLP, env)
    [] OTHER -> EvalFunc__2(c, fn, arg0, env, a,
           FuncFrame(a.c, fn, a.v))
EvalFunc(c, fn, arg0, env) ==
  EvalFunc__1(c, fn, arg0, env,
    evallist(c, arg0, env, NIL, NULLP))

\* the store if it copied the flags byte and the car only
MacroStoreCar(c, obj, v) ==
  [c EXCEPT !.mem[obj] = [c.mem[v] EXCEPT !.cdr = c.mem[obj].cdr],
            !.marked = Explicit(IF v \in @ THEN @ \cup {obj} ELSE @ \ {obj}),
            !.xlog = Append(@, [cell |-> obj, car |-> c.mem[v].car,
                                cdr |-> c.mem[v].cdr])]

\* *obj = *v: the call cell takes the flags byte, the car and the cdr of the
\* cell v; the store is recorded in c.xlog
MacroStore(c, obj, v) ==
  [c EXCEPT !.mem[obj] = c.mem[v],
            !.marked = Explicit(IF v \in @ THEN @ \cup {obj} ELSE @ \ {obj}),
            !.xlog = Append(@, [cell |-> obj, car |-> c.mem[v].car,
                                cdr |-> c.mem[v].cdr])]

\* history only: c.upv holds the cells of the upvalue list of a macro from
\* the end of its loop until the frame is built
UpvalCells(c, upvals) ==
  { ListCells(c, upvals, << >>)[i] : i \in 1..Len(ListCells(c, upvals, << >>)) }

FrameBuilt(c) == [c EXCEPT !.upv = {}]

\* case FE_TMACRO from `fn_guts = cdr(fn)` to the frame
\* (frame_sym . (locals . upvals))
MacroFrame__4(c, fn, arg, u, locals, f1, frame) ==
  Rec_v(FrameBuilt(frame.c),
      frame.v)
MacroFrame__3(c, fn, arg, u, locals, f1) ==
  CASE f1.bad -> Rec_v(FrameBuilt(f1.c),
                            NULLP)
    [] OTHER -> MacroFrame__4(c, fn, arg, u, locals, f1,
           fe_cons(f1.c, f1.c.st.frame_sym, f1.v))
MacroFrame__2(c, fn, arg, u, locals) ==
  CASE locals.bad -> Rec_v(FrameBuilt(locals.c),
                                NULLP)
    [] OTHER -> MacroFrame__3(c, fn, arg, u, locals,
           fe_cons(locals.c, locals.v, u.v))
MacroFrame__1(c, fn, arg, u) ==
  CASE u.bad -> [c |-> u.c, v |-> NULLP, bad |-> u.c.err # ""]
    [] OTHER -> MacroFrame__2(c, fn, arg, u,
           argstoenv([fe_restoregc(u.c, fe_savegc(c))
                        EXCEPT !.upv = UpvalCells(u.c, u.v)],
                     car(c, cdr(c, cdr(c, cdr(c, fn)))), arg, NIL))
MacroFrame(c, fn, arg) ==
  MacroFrame__1(c, fn, arg,
    BuildUpvals(fe_pushgc(c, car(c, cdr(c, fn))), car(c, cdr(c, cdr(c, fn))), car(c, cdr(c, fn)), NIL))

\* case FE_TMACRO up to `*obj = *dolist(ctx, body, frame)`; the result is the
\* context after the call cell has been overwritten
ExpandMacro__2(c, obj, fn, arg, frame, d) ==
  CASE d.bad -> d.c
    [] isnil(d.v) ->
            [d.c EXCEPT !.mem[obj] = [tag |-> "nil", car |-> NULLP, cdr |-> NULLP],
                        !.marked = Explicit(@ \ {obj})]
    [] ~IsCell(d.c, d.v) -> Crash(d.c)
    [] OTHER -> MacroStore(d.c, obj, d.v)
ExpandMacro__1(c, obj, fn, arg, frame) ==
  CASE frame.bad -> frame.c
    [] OTHER -> ExpandMacro__2(c, obj, fn, arg, frame,
           dolist([frame.c EXCEPT !.mlog = Append(@, obj)], cdr(c, cdr(c, cdr(c, cdr(c, fn)))), frame.v))
ExpandMacro(c, obj, fn, arg) ==
  ExpandMacro__1(c, obj, fn, arg,
    MacroFrame(c, fn, arg))

\* builtin_print and builtin_println: every argument is written, unquoted
RECURSIVE builtin_print(_, _)
builtin_print__2(c, args, a, d, text) ==
  CASE d.bad -> [c |-> d.c, v |-> NULLP, bad |-> d.c.err # ""]
    [] OTHER -> builtin_print([d.c EXCEPT !.stdout = @ \o text], d.v)
builtin_print__1(c, args, a) ==
  builtin_print__2(c, args, a,
    fe_cdr(a.c, args),
    fe_write(c, a.v, FALSE, Len(c.mem)))
builtin_print(c, args) ==
  CASE c.err # "" \/ isnil(args) -> [c |-> c, v |-> NIL, bad |-> c.err # ""]
    [] OTHER -> builtin_print__1(c, args,
           fe_car(c, args))

builtin_println__1(c, args, r) ==
  CASE r.bad -> r
    [] OTHER -> Rec_v([r.c EXCEPT !.stdout = @ \o "\n"],
                    r.v)
builtin_println(c, args) ==
  builtin_println__1(c, args,
    builtin_print(c, args))

\* case FE_TCFUNC: cfunc(fn)(ctx, evallist(ctx, arg, env))
CallCFunc__1(c, fn, args, env, r) ==
  R(r.c, r.v, env)
CallCFunc(c, fn, args, env) ==
  CallCFunc__1(c, fn, args, env,
    CASE cdr(c, fn) = CFUNC_PRINT -> builtin_print(c, args)
      [] cdr(c, fn) = CFUNC_PRINTLN -> builtin_println(c, args)
      [] OTHER -> Rec_v(Crash(c),
                      NULLP))

\* car(&cl) = obj, cdr(&cl) = ctx->calllist; ctx->calllist = &cl;
Called(c, obj) == [c EXCEPT !.calllist = << obj >> \o @]

\* case FE_TMACRO: the call cell is overwritten and evaluated again
\* history only: eval of a call of kind `kind` has returned v; gc is the depth
\* of the root stack at its entry and n0 the number of allocations before it
\* and cl the call-trail at its entry
Returned(c, kind, gc, v, n0, cl) ==
  [kind |-> kind, delta |-> fe_savegc(c) - gc,
   cell |-> ~(FE_IS_FIXNUM(v) \/ FE_IS_BOOLEAN(v) \/ v = NIL),
   allocated |-> Len(c.alog) > n0, restored |-> c.calllist = cl]

\* history only: whether the pair obj is the head of the call-trail once its
\* first element has been evaluated; cl is the call-trail at the entry
Headed(c, obj, cl) ==
  IF c.err # "" THEN c
  ELSE [c EXCEPT !.hd = Explicit(@ \cup {c.calllist = << obj >> \o cl})]

EvalMacro__2(c, obj, fn, env, gc, cl, n0, m, e) ==
  CASE e.bad -> R(e.c, NULLP, env)
    [] OTHER ->
            R([e.c EXCEPT !.evd = Explicit(@ \cup {Returned(e.c, "macro", gc,
                                                            e.v, n0, cl)})],
              e.v, env)
EvalMacro__1(c, obj, fn, env, gc, cl, n0, m) ==
  CASE m.err # "" -> R(m, NULLP, env)
    [] OTHER -> EvalMacro__2(c, obj, fn, env, gc, cl, n0, m,
           eval([fe_restoregc(m, gc) EXCEPT !.calllist = cl], obj, env, FALSE))
EvalMacro(c, obj, fn, env, gc, cl, n0) ==
  EvalMacro__1(c, obj, fn, env, gc, cl, n0,
    ExpandMacro(c, obj, fn, cdr(c, obj)))

\* case FE_TCFUNC: res = cfunc(fn)(ctx, evallist(ctx, arg, env))
EvalCFunc__1(c, fn, arg, env, l) ==
  CallCFunc(l.c, fn, l.v, env)
EvalCFunc(c, fn, arg, env) ==
  EvalCFunc__1(c, fn, arg, env,
    evallist(c, arg, env, NIL, NULLP))

\* after the switch: fe_restoregc(ctx, gc); fe_pushgc(ctx, res);
\* ctx->calllist = cdr(&cl); return res;
\* the end of eval if it left the root stack as the switch left it
EvalEnd_norestore__1(r, env, gc, cl, kind, n0, c1) ==
  CASE c1.err # "" -> R(c1, NULLP, env)
    [] OTHER ->
            R([c1 EXCEPT !.calllist = cl,
                         !.evd = Explicit(@ \cup {Returned([c1 EXCEPT !.calllist = cl],
                                                            kind, gc, r.v, n0, cl)})],
              r.v, r.env)
EvalEnd_norestore(r, env, gc, cl, kind, n0) ==
  CASE r.bad -> R(r.c, NULLP, env)
    [] OTHER -> EvalEnd_norestore__1(r, env, gc, cl, kind, n0,
           fe_pushgc(r.c, r.v))

EvalEnd__1(r, env, gc, cl, kind, n0, c1) ==
  CASE c1.err # "" -> R(c1, NULLP, env)
    [] OTHER ->
            R([c1 EXCEPT !.calllist = cl,
                         !.evd = Explicit(@ \cup {Returned([c1 EXCEPT !.calllist = cl],
                                                            kind, gc, r.v, n0, cl)})],
              r.v, r.env)
EvalEnd(r, env, gc, cl, kind, n0) ==
  CASE r.bad -> R(r.c, NULLP, env)
    [] OTHER -> EvalEnd__1(r, env, gc, cl, kind, n0,
           fe_pushgc(fe_restoregc(r.c, gc), r.v))

eval__1(c, obj, env, hasnew, f) ==
  CASE f.bad -> R(f.c, NULLP, env)
    [] type(f.c, f.v) = "macro" ->
            EvalMacro(Headed(f.c, obj, c.calllist), obj, f.v, env, fe_savegc(c), c.calllist,
                      Len(c.alog))
    [] type(f.c, f.v) = "prim" ->
            EvalEnd(EvalPrim(Headed(f.c, obj, c.calllist), primnames[cdr(f.c, f.v) + 1], cdr(f.c, obj), env, hasnew),
                    env, fe_savegc(c), c.calllist, type(f.c, f.v), Len(c.alog))
    [] type(f.c, f.v) = "func" ->
            EvalEnd(EvalFunc(Headed(f.c, obj, c.calllist), f.v, cdr(f.c, obj), env), env, fe_savegc(c), c.calllist, type(f.c, f.v),
                    Len(c.alog))
    [] type(f.c, f.v) = "cfunc" ->
            EvalEnd(EvalCFunc(Headed(f.c, obj, c.calllist), f.v, cdr(f.c, obj), env), env, fe_savegc(c), c.calllist, type(f.c, f.v),
                    Len(c.alog))
    [] OTHER ->
            R(fe_error(f.c, "tried to call non-callable value"), NULLP, env)
eval(c, obj, env, hasnew) ==
  CASE c.err # "" -> R(c, NULLP, env)
    [] type(c, obj) = "symbol" -> R(c, cdr(c, getbound(c, obj, env)), env)
    [] type(c, obj) # "pair" -> R(c, obj, env)
    [] OTHER -> eval__1(c, obj, env, hasnew,
           eval(Called(c, obj), car(c, obj), env, FALSE))

fe_eval(c, obj) == eval(c, obj, NIL, FALSE)

(***************************************************************************)
(* fe_open: the context header, the freelist, "t", the primitives and the  *)
(* process-wide static symbols.  `c0` carries the process state (memory of *)
(* other contexts, malloc heap, statics); the new arena is appended to the *)
(* memory at `c0.membrk`.                                                  *)
(***************************************************************************)

\* obj->cdr = ctx->freelist; ctx->freelist = obj;
PopulateCell(c, obj) ==
  [setcdr(settype(c, obj, "free"), obj, c.freelist) EXCEPT !.freelist = obj]

RECURSIVE PopulateFreelist(_, _, _)
PopulateFreelist(c, lo, hi) ==
  CASE c.err # "" -> c
    [] lo > hi -> c
    [] lo = hi -> PopulateCell(c, c.base + lo)
    [] OTHER -> PopulateFreelist(PopulateFreelist(c, lo, (lo + hi) \div 2),
                                 (lo + hi) \div 2 + 1, hi)

\* the body of the loop over the primitives, for primitive i
RegisterPrim__4(c, i, save, v, c1, s, c2) ==
  fe_restoregc(c2, save)
RegisterPrim__3(c, i, save, v, c1, s) ==
  RegisterPrim__4(c, i, save, v, c1, s,
    fe_set(s.c, s.v, v.v))
RegisterPrim__2(c, i, save, v, c1) ==
  RegisterPrim__3(c, i, save, v, c1,
    fe_symbol(c1, primnames[i + 1]))
RegisterPrim__1(c, i, save, v) ==
  RegisterPrim__2(c, i, save, v,
    setcdr(settype(v.c, v.v, "prim"), v.v, i))
RegisterPrim(c, i, save) ==
  RegisterPrim__1(c, i, save,
    object(c))

\* for (i = 0; i < P_MAX; i++): the primitives lo..hi in ascending order, the
\* lower half of the range before the upper half
RECURSIVE RegisterPrims(_, _, _, _)
RegisterPrims(c, lo, hi, save) ==
  CASE c.err # "" -> c
    [] lo > hi -> c
    [] lo = hi -> RegisterPrim(c, lo, save)
    [] OTHER -> RegisterPrims(RegisterPrims(c, lo, (lo + hi) \div 2, save),
                              (lo + hi) \div 2 + 1, hi, save)

Process0 ==
  [mem |-> << >>, marked |-> {}, bufs |-> << >>, dfree |-> 0,
   st |-> [return_sym |-> NULLP, frame_sym |-> NULLP, do_sym |-> NULLP,
           let_sym |-> NULLP, quote_sym |-> NULLP, fn_sym |-> NULLP,
           mac_sym |-> NULLP],
   P |-> [toks |-> << >>, pos |-> 1, had_error |-> FALSE,
          panic_mode |-> FALSE]]

\* the static symbols after fe_open: a symbol that fe_symbol did not return is
\* NULL
Statics(c, s1, s2, s3, s4, s5, s6, s7) ==
  [c EXCEPT !.st = [return_sym |-> s1, frame_sym |-> s2, do_sym |-> s3,
                    let_sym |-> s4, quote_sym |-> s5, fn_sym |-> s6,
                    mac_sym |-> s7]]

fe_open__12(p, count, junk, h, c1, t, c2, c3, s1, s2, s3, s4, s5, s6, s7) ==
  Statics(s7.c, s1.v, s2.v, s3.v, s4.v, s5.v, s6.v, s7.v)
fe_open__11(p, count, junk, h, c1, t, c2, c3, s1, s2, s3, s4, s5, s6) ==
  CASE s6.bad ->
            Statics(s6.c, s1.v, s2.v, s3.v, s4.v, s5.v, NULLP, NULLP)
    [] OTHER -> fe_open__12(
           p, count, junk, h, c1, t, c2, c3, s1, s2, s3, s4, s5, s6,
           fe_symbol(s6.c, "mac"))
fe_open__10(p, count, junk, h, c1, t, c2, c3, s1, s2, s3, s4, s5) ==
  CASE s5.bad ->
            Statics(s5.c, s1.v, s2.v, s3.v, s4.v, NULLP, NULLP, NULLP)
    [] OTHER -> fe_open__11(
           p, count, junk, h, c1, t, c2, c3, s1, s2, s3, s4, s5,
           fe_symbol(s5.c, "fn"))
fe_open__9(p, count, junk, h, c1, t, c2, c3, s1, s2, s3, s4) ==
  CASE s4.bad ->
            Statics(s4.c, s1.v, s2.v, s3.v, NULLP, NULLP, NULLP, NULLP)
    [] OTHER -> fe_open__10(p, count, junk, h, c1, t, c2, c3, s1, s2, s3, s4,
           fe_symbol(s4.c, "quote"))
fe_open__8(p, count, junk, h, c1, t, c2, c3, s1, s2, s3) ==
  CASE s3.bad ->
            Statics(s3.c, s1.v, s2.v, NULLP, NULLP, NULLP, NULLP, NULLP)
    [] OTHER -> fe_open__9(p, count, junk, h, c1, t, c2, c3, s1, s2, s3,
           fe_symbol(s3.c, "let"))
fe_open__7(p, count, junk, h, c1, t, c2, c3, s1, s2) ==
  CASE s2.bad ->
            Statics(s2.c, s1.v, NULLP, NULLP, NULLP, NULLP, NULLP, NULLP)
    [] OTHER -> fe_open__8(p, count, junk, h, c1, t, c2, c3, s1, s2,
           fe_symbol(s2.c, "do"))
fe_open__6(p, count, junk, h, c1, t, c2, c3, s1) ==
  CASE s1.bad ->
            Statics(s1.c, NULLP, NULLP, NULLP, NULLP, NULLP, NULLP, NULLP)
    [] OTHER -> fe_open__7(p, count, junk, h, c1, t, c2, c3, s1,
           fe_symbol(s1.c, "[frame]"))
fe_open__5(p, count, junk, h, c1, t, c2, c3) ==
  CASE c3.err # "" ->
            Statics(c3, NULLP, NULLP, NULLP, NULLP, NULLP, NULLP, NULLP)
    [] OTHER -> fe_open__6(p, count, junk, h, c1, t, c2, c3,
           fe_symbol(c3, "return"))
fe_open__4(p, count, junk, h, c1, t, c2) ==
  fe_open__5(p, count, junk, h, c1, t, c2,
    RegisterPrims(c2, 0, P_MAX - 1, fe_savegc(c2)))
fe_open__3(p, count, junk, h, c1, t) ==
  fe_open__4(p, count, junk, h, c1, t,
    fe_set([t.c EXCEPT !.t = t.v], t.v, t.v))
fe_open__2(p, count, junk, h, c1) ==
  fe_open__3(p, count, junk, h, c1,
    fe_symbol(c1, "t"))
fe_open__1(p, count, junk, h) ==
  fe_open__2(p, count, junk, h,
    PopulateFreelist(h, 1, count))
fe_open(p, count, junk) ==
  fe_open__1(p, count, junk,
    [mem |-> Tail((<< ([tag |-> "pair", car |-> junk, cdr |-> junk]) >> \o p.mem) \o [i \in 1..count |-> ([tag |-> "pair", car |-> junk, cdr |-> junk])]),
     marked |-> p.marked, bufs |-> p.bufs, dfree |-> p.dfree,
     st |-> p.st, P |-> p.P,
     base |-> Len(p.mem), object_count |-> count,
     gcstack |-> << >>, gcabove |-> << >>, calllist |-> << >>, errcl |-> << >>,
     freelist |-> NIL, modulestack |-> NIL, symlist |-> NIL, t |-> NIL,
     live_count |-> 0, allocs_since_gc |-> 0,
     gc_threshold |-> IF (count \div GC_INITIAL_DIVISOR) < GC_MIN_THRESHOLD
                      THEN GC_MIN_THRESHOLD ELSE (count \div GC_INITIAL_DIVISOR),
     handler |-> "none", err |-> "",
     stdout |-> "",
     alog |-> << >>, gclog |-> << >>, mlog |-> << >>, xlog |-> << >>,
     syms |-> {}, ngc |-> 0, trace |-> FALSE, ast |-> {},
     fvs |-> {}, fvon |-> FALSE, upv |-> {}, evd |-> {}, ds |-> {}, prd |-> {}, hd |-> {}])

(***************************************************************************)
(* FeX (fex.c).  The source text is given as its sequence of lexemes, in   *)
(* the order scan_token returns them (no lexeme of the inputs is a         *)
(* TOKEN_ERROR, and every numeral is an integer in the fixnum range).  The *)
(* static parser P lives in the process: c.P holds the source, the index   *)
(* of P.current in it and the two flags; P.previous is the lexeme before   *)
(* P.current.                                                              *)
(***************************************************************************)
PREC_NONE == 0
PREC_ASSIGNMENT == 1
PREC_OR == 2
PREC_AND == 3
PREC_EQUALITY == 4
PREC_COMPARISON == 5
PREC_TERM == 6
PREC_FACTOR == 7
PREC_UNARY == 8
PREC_CALL == 9
PREC_PRIMARY == 10

\* scan_token / identifier_type on one lexeme
TokenType(lex) ==
  CASE lex = "(" -> "TOKEN_LPAREN"
    [] lex = ")" -> "TOKEN_RPAREN"
    [] lex = "{" -> "TOKEN_LBRACE"
    [] lex = "}" -> "TOKEN_RBRACE"
    [] lex = "[" -> "TOKEN_LBRACKET"
    [] lex = "]" -> "TOKEN_RBRACKET"
    [] lex = "," -> "TOKEN_COMMA"
    [] lex = "." -> "TOKEN_DOT"
    [] lex = "-" -> "TOKEN_MINUS"
    [] lex = "+" -> "TOKEN_PLUS"
    [] lex = ";" -> "TOKEN_SEMICOLON"
    [] lex = "/" -> "TOKEN_SLASH"
    [] lex = "*" -> "TOKEN_STAR"
    [] lex = "!" -> "TOKEN_BANG"
    [] lex = "!=" -> "TOKEN_BANG_EQUAL"
    [] lex = "=" -> "TOKEN_EQUAL"
    [] lex = "==" -> "TOKEN_EQUAL_EQUAL"
    [] lex = ">" -> "TOKEN_GREATER"
    [] lex = ">=" -> "TOKEN_GREATER_EQUAL"
    [] lex = "<" -> "TOKEN_LESS"
    [] lex = "<=" -> "TOKEN_LESS_EQUAL"
    [] lex = "and" -> "TOKEN_AND"
    [] lex = "else" -> "TOKEN_ELSE"
    [] lex = "export" -> "TOKEN_EXPORT"
    [] lex = "false" -> "TOKEN_FALSE"
    [] lex = "fn" -> "TOKEN_FN"
    [] lex = "if" -> "TOKEN_IF"
    [] lex = "import" -> "TOKEN_IMPORT"
    [] lex = "let" -> "TOKEN_LET"
    [] lex = "module" -> "TOKEN_MODULE"
    [] lex = "nil" -> "TOKEN_NIL"
    [] lex = "or" -> "TOKEN_OR"
    [] lex = "return" -> "TOKEN_RETURN"
    [] lex = "true" -> "TOKEN_TRUE"
    [] lex = "while" -> "TOKEN_WHILE"
    [] lex = "<eof>" -> "TOKEN_EOF"
    [] IsNumeral(lex) -> "TOKEN_NUMBER"
    [] IsStringLiteral(lex) -> "TOKEN_STRING"
    [] OTHER -> "TOKEN_IDENTIFIER"

\* rules[]: the prefix function, whether there is an infix entry, the precedence
PrefixRule(t) ==
  CASE t = "TOKEN_LPAREN" -> "parse_grouping"
    [] t = "TOKEN_LBRACKET" -> "parse_list"
    [] t = "TOKEN_MINUS" \/ t = "TOKEN_BANG" -> "parse_unary"
    [] t = "TOKEN_IDENTIFIER" -> "parse_variable"
    [] t = "TOKEN_STRING" -> "parse_string"
    [] t = "TOKEN_NUMBER" -> "parse_number"
    [] t \in {"TOKEN_FALSE", "TOKEN_NIL", "TOKEN_TRUE"} -> "parse_literal"
    [] t = "TOKEN_FN" -> "fn_expression"
    [] OTHER -> "NULL"

RulePrecedence(t) ==
  CASE t = "TOKEN_LPAREN" \/ t = "TOKEN_DOT" -> PREC_CALL
    [] t = "TOKEN_MINUS" \/ t = "TOKEN_PLUS" -> PREC_TERM
    [] t = "TOKEN_SLASH" \/ t = "TOKEN_STAR" -> PREC_FACTOR
    [] t = "TOKEN_BANG" -> PREC_UNARY
    [] t = "TOKEN_BANG_EQUAL" \/ t = "TOKEN_EQUAL_EQUAL" -> PREC_EQUALITY
    [] t = "TOKEN_EQUAL" -> PREC_ASSIGNMENT
    [] t \in {"TOKEN_GREATER", "TOKEN_GREATER_EQUAL", "TOKEN_LESS",
              "TOKEN_LESS_EQUAL"} -> PREC_COMPARISON
    [] t = "TOKEN_AND" -> PREC_AND
    [] t = "TOKEN_OR" -> PREC_OR
    [] OTHER -> PREC_NONE

HasInfix(t) ==
  t \in {"TOKEN_LPAREN", "TOKEN_DOT", "TOKEN_MINUS", "TOKEN_PLUS",
         "TOKEN_SLASH", "TOKEN_STAR", "TOKEN_BANG_EQUAL", "TOKEN_EQUAL",
         "TOKEN_EQUAL_EQUAL", "TOKEN_GREATER", "TOKEN_GREATER_EQUAL",
         "TOKEN_LESS", "TOKEN_LESS_EQUAL", "TOKEN_AND", "TOKEN_OR"}

\* P.current and P.previous
Current(c) ==
  IF c.P.pos > Len(c.P.toks) THEN "<eof>" ELSE c.P.toks[c.P.pos]
Previous(c) ==
  IF c.P.pos < 2 \/ c.P.pos - 1 > Len(c.P.toks) THEN "<eof>"
  ELSE c.P.toks[c.P.pos - 1]

\* error_at: the first error of a panic is reported and sets both flags
error_at(c) ==
  IF c.err # "" \/ c.P.panic_mode THEN c
  ELSE [c EXCEPT !.P.panic_mode = TRUE, !.P.had_error = TRUE]

parser_advance(c) ==
  IF c.err # "" \/ c.P.pos > Len(c.P.toks) + 1 THEN c
  ELSE [c EXCEPT !.P.pos = @ + 1]

check(c, t) == TokenType(Current(c)) = t

consume(c, t) == IF check(c, t) THEN parser_advance(c) ELSE error_at(c)

\* parser_match: the parser after the call (the call returns check(c, t))
parser_match(c, t) == IF check(c, t) THEN parser_advance(c) ELSE c

symbol_from_token(c, lex) == fe_symbol(c, lex)

\* fex_cons_tok: fe_cons; the span record goes to a table outside the arena
fex_cons_tok(c, a, d) == fe_cons(c, a, d)

make_unary__3(c, op, right, s, list, res) ==
  CASE res.bad -> [c |-> res.c, v |-> NULLP, bad |-> res.c.err # ""]
    [] OTHER -> Rec_v(fe_restoregc(res.c, fe_savegc(c)),
                    res.v)
make_unary__2(c, op, right, s, list) ==
  CASE list.bad -> [c |-> list.c, v |-> NULLP, bad |-> list.c.err # ""]
    [] OTHER -> make_unary__3(c, op, right, s, list,
           fex_cons_tok(list.c, s.v, list.v))
make_unary__1(c, op, right, s) ==
  CASE s.bad -> [c |-> s.c, v |-> NULLP, bad |-> s.c.err # ""]
    [] OTHER -> make_unary__2(c, op, right, s,
           fe_cons(fe_pushgc(s.c, s.v), right, NIL))
make_unary(c, op, right) ==
  make_unary__1(c, op, right,
    fe_symbol(fe_pushgc(c, right), op))

make_binary__4(c, op, left, right, s, t1, t2, res) ==
  CASE res.bad -> [c |-> res.c, v |-> NULLP, bad |-> res.c.err # ""]
    [] OTHER -> Rec_v(fe_restoregc(res.c, fe_savegc(c)),
                    res.v)
make_binary__3(c, op, left, right, s, t1, t2) ==
  CASE t2.bad -> [c |-> t2.c, v |-> NULLP, bad |-> t2.c.err # ""]
    [] OTHER -> make_binary__4(c, op, left, right, s, t1, t2,
           fex_cons_tok(t2.c, s.v, t2.v))
make_binary__2(c, op, left, right, s, t1) ==
  CASE t1.bad -> [c |-> t1.c, v |-> NULLP, bad |-> t1.c.err # ""]
    [] OTHER -> make_binary__3(c, op, left, right, s, t1,
           fe_cons(t1.c, left, t1.v))
make_binary__1(c, op, left, right, s) ==
  CASE s.bad -> [c |-> s.c, v |-> NULLP, bad |-> s.c.err # ""]
    [] OTHER -> make_binary__2(c, op, left, right, s,
           fe_cons(fe_pushgc(s.c, s.v), right, NIL))
make_binary(c, op, left, right) ==
  make_binary__1(c, op, left, right,
    fe_symbol(fe_pushgc(fe_pushgc(c, left), right), op))

RECURSIVE parse_precedence_new(_, _)
RECURSIVE InfixLoop(_, _, _)
RECURSIVE CallArgs(_, _, _)
RECURSIVE ListElems(_, _, _, _)
RECURSIVE ParamLoop(_, _, _)
RECURSIVE ReverseParams(_, _, _, _)
RECURSIVE BlockLoop(_, _, _, _)
RECURSIVE SyncLoop(_)
RECURSIVE fn_declaration(_)
RECURSIVE statement(_)
RECURSIVE declaration(_)

expression(c) == parse_precedence_new(c, PREC_ASSIGNMENT)

parse_grouping__1(c, e) ==
  Rec_v(consume(e.c, "TOKEN_RPAREN"),
      e.v)
parse_grouping(c) ==
  parse_grouping__1(c,
    expression(c))

parse_number(c) == [c |-> c, v |-> FE_FIXNUM(NumeralValue(Previous(c))), bad |-> c.err # ""]

parse_string(c) == fe_string(c, LiteralChars(Previous(c)))

parse_literal(c) ==
  [c |-> c, v |-> CASE Previous(c) = "false" -> FE_FALSE
                    [] Previous(c) = "true" -> FE_TRUE
                    [] OTHER -> NIL, bad |-> c.err # ""]

parse_variable(c) == symbol_from_token(c, Previous(c))

parse_unary__1(c, operatorType, right) ==
  CASE right.bad -> [c |-> right.c, v |-> NULLP, bad |-> right.c.err # ""]
    [] operatorType = "TOKEN_MINUS" -> make_unary(right.c, "-", right.v)
    [] operatorType = "TOKEN_BANG" -> make_unary(right.c, "not", right.v)
    [] OTHER -> [c |-> right.c, v |-> NIL, bad |-> right.c.err # ""]
parse_unary(c) ==
  parse_unary__1(c,
    TokenType(Previous(c)),
    parse_precedence_new(c, PREC_UNARY))

\* the do-while of parse_list: `head` is the list so far, `last` the cell
\* `tail` points into (NULLP while tail = &head)
ListElems__5(c, head, last, gc_base, elem, k, c1, c2, c3) ==
  CASE c3.err # "" -> [c |-> c3, v |-> NULLP, bad |-> c3.err # ""]
    [] check(c3, "TOKEN_COMMA") ->
            ListElems(parser_advance(c3), (IF last = NULLP THEN k.v ELSE head), k.v, gc_base)
    [] OTHER -> [c |-> c3, v |-> (IF last = NULLP THEN k.v ELSE head), bad |-> c3.err # ""]
ListElems__4(c, head, last, gc_base, elem, k, c1, c2) ==
  ListElems__5(c, head, last, gc_base, elem, k, c1, c2,
    IF isnil((IF last = NULLP THEN k.v ELSE head)) THEN c2 ELSE fe_pushgc(c2, (IF last = NULLP THEN k.v ELSE head)))
ListElems__3(c, head, last, gc_base, elem, k, c1) ==
  ListElems__4(c, head, last, gc_base, elem, k, c1,
    fe_restoregc(c1, gc_base))
ListElems__2(c, head, last, gc_base, elem, k) ==
  CASE k.bad -> [c |-> k.c, v |-> NULLP, bad |-> k.c.err # ""]
    [] OTHER -> ListElems__3(c, head, last, gc_base, elem, k,
           IF last = NULLP THEN k.c ELSE setcdr(k.c, last, k.v))
ListElems__1(c, head, last, gc_base, elem) ==
  CASE elem.bad -> [c |-> elem.c, v |-> NULLP, bad |-> elem.c.err # ""]
    [] OTHER -> ListElems__2(c, head, last, gc_base, elem,
           fe_cons(fe_pushgc(elem.c, elem.v), elem.v, NIL))
ListElems(c, head, last, gc_base) ==
  ListElems__1(c, head, last, gc_base,
    expression(c))

parse_list__2(c, l, s) ==
  CASE s.bad -> [c |-> s.c, v |-> NULLP, bad |-> s.c.err # ""]
    [] OTHER -> fex_cons_tok(s.c, s.v, l.v)
parse_list__1(c, l) ==
  CASE l.bad -> [c |-> l.c, v |-> NULLP, bad |-> l.c.err # ""]
    [] OTHER -> parse_list__2(c, l,
           fe_symbol(consume(l.c, "TOKEN_RBRACKET"), "list"))
parse_list(c) ==
  parse_list__1(c,
    IF check(c, "TOKEN_RBRACKET") THEN [c |-> c, v |-> NIL, bad |-> c.err # ""]
    ELSE ListElems(c, NIL, NULLP, fe_savegc(c)))

\* the function of the prefix rule
PrefixCall(c, rule) ==
  CASE rule = "parse_grouping" -> parse_grouping(c)
    [] rule = "parse_list" -> parse_list(c)
    [] rule = "parse_unary" -> parse_unary(c)
    [] rule = "parse_variable" -> parse_variable(c)
    [] rule = "parse_string" -> parse_string(c)
    [] rule = "parse_number" -> parse_number(c)
    [] rule = "parse_literal" -> parse_literal(c)
    [] OTHER -> fn_declaration(c)

\* the do-while of the call branch
CallArgs__3(c, head, last, e, k, c1) ==
  CASE check(c1, "TOKEN_COMMA") ->
            CallArgs(parser_advance(c1), (IF last = NULLP THEN k.v ELSE head), k.v)
    [] OTHER -> [c |-> c1, v |-> (IF last = NULLP THEN k.v ELSE head), bad |-> c1.err # ""]
CallArgs__2(c, head, last, e, k) ==
  CASE k.bad -> [c |-> k.c, v |-> NULLP, bad |-> k.c.err # ""]
    [] OTHER -> CallArgs__3(c, head, last, e, k,
           IF last = NULLP THEN k.c ELSE setcdr(k.c, last, k.v))
CallArgs__1(c, head, last, e) ==
  CASE e.bad -> [c |-> e.c, v |-> NULLP, bad |-> e.c.err # ""]
    [] OTHER -> CallArgs__2(c, head, last, e,
           fe_cons(e.c, e.v, NIL))
CallArgs(c, head, last) ==
  CallArgs__1(c, head, last,
    expression(c))

\* op_str of the standard binary operators
BinaryOpStr(t) ==
  CASE t = "TOKEN_PLUS" -> "+"
    [] t = "TOKEN_MINUS" -> "-"
    [] t = "TOKEN_STAR" -> "*"
    [] t = "TOKEN_SLASH" -> "/"
    [] t = "TOKEN_EQUAL_EQUAL" -> "is"
    [] t = "TOKEN_BANG_EQUAL" -> "not is"
    [] t = "TOKEN_LESS" -> "<"
    [] t = "TOKEN_LESS_EQUAL" -> "<="
    [] t = "TOKEN_GREATER" -> ">"
    [] t = "TOKEN_GREATER_EQUAL" -> ">="
    [] t = "TOKEN_AND" -> "and"
    [] OTHER -> "or"

\* the while loop of parse_precedence_new
InfixLoop__4(c, left, precedence, op_type, c1, ra, args, cd, right, ma, call,
             property, is, md, mb) ==
  CASE op_type = "TOKEN_DOT" /\ md.bad -> [c |-> md.c, v |-> NULLP, bad |-> md.c.err # ""]
    [] op_type = "TOKEN_DOT" -> InfixLoop(md.c, md.v, precedence)
    [] right.bad -> [c |-> right.c, v |-> NULLP, bad |-> right.c.err # ""]
    [] op_type = "TOKEN_BANG_EQUAL" /\ is.bad ->
            [c |-> is.c, v |-> NULLP, bad |-> is.c.err # ""]
    [] mb.bad -> [c |-> mb.c, v |-> NULLP, bad |-> mb.c.err # ""]
    [] OTHER -> InfixLoop(mb.c, mb.v, precedence)
InfixLoop__3(c, left, precedence, op_type, c1, ra, args, cd, right, ma, call,
             property, is) ==
  CASE op_type = "TOKEN_EQUAL" /\ ma.bad -> [c |-> ma.c, v |-> NULLP, bad |-> ma.c.err # ""]
    [] op_type = "TOKEN_EQUAL" -> InfixLoop(ma.c, ma.v, precedence)
    [] op_type = "TOKEN_LPAREN" /\ args.bad ->
            [c |-> args.c, v |-> NULLP, bad |-> args.c.err # ""]
    [] op_type = "TOKEN_LPAREN" /\ call.bad ->
            [c |-> call.c, v |-> NULLP, bad |-> call.c.err # ""]
    [] op_type = "TOKEN_LPAREN" -> InfixLoop(call.c, call.v, precedence)
    [] op_type = "TOKEN_DOT" /\ property.bad ->
            [c |-> property.c, v |-> NULLP, bad |-> property.c.err # ""]
    [] OTHER -> InfixLoop__4(
           c, left, precedence, op_type, c1, ra, args, cd, right, ma, call,
           property, is,
           make_binary(property.c, "get", left, property.v),
           CASE op_type = "TOKEN_BANG_EQUAL" -> make_unary(is.c, "not", is.v)
             [] op_type = "TOKEN_GREATER" ->
                  make_binary(right.c, "<", right.v, left)
             [] op_type = "TOKEN_GREATER_EQUAL" ->
                  make_binary(right.c, "<=", right.v, left)
             [] OTHER ->
                  make_binary(right.c, BinaryOpStr(op_type), left, right.v))
InfixLoop__2(c, left, precedence, op_type, c1, ra, args, cd, right) ==
  CASE op_type = "TOKEN_EQUAL" /\ ra.bad -> [c |-> ra.c, v |-> NULLP, bad |-> ra.c.err # ""]
    [] OTHER -> InfixLoop__3(
           c, left, precedence, op_type, c1, ra, args, cd, right,
           make_binary(ra.c, "=", left, ra.v),
           fex_cons_tok(consume(args.c, "TOKEN_RPAREN"), left, args.v),
           symbol_from_token(cd, Previous(cd)),
           make_binary(right.c, "is", left, right.v))
InfixLoop__1(c, left, precedence, op_type, c1) ==
  CASE ~(HasInfix(op_type) /\ precedence <= RulePrecedence(op_type)) ->
            [c |-> c, v |-> left, bad |-> c.err # ""]
    [] op_type = "TOKEN_EQUAL" /\ type(c1, left) # "symbol" ->
            Rec_v(error_at(c1),
                NIL)
    [] OTHER -> InfixLoop__2(c, left, precedence, op_type, c1,
           parse_precedence_new(c1, PREC_ASSIGNMENT),
           IF check(c1, "TOKEN_RPAREN") THEN [c |-> c1, v |-> NIL, bad |-> c1.err # ""]
           ELSE CallArgs(c1, NIL, NULLP),
           consume(c1, "TOKEN_IDENTIFIER"),
           parse_precedence_new(c1, RulePrecedence(op_type) + 1))
InfixLoop(c, left, precedence) ==
  CASE c.err # "" -> [c |-> c, v |-> NULLP, bad |-> c.err # ""]
    [] OTHER -> InfixLoop__1(c, left, precedence,
           TokenType(Current(c)),
           parser_advance(c))

parse_precedence_new__3(c, precedence, c1, prefix_rule, left) ==
  CASE left.bad -> [c |-> left.c, v |-> NULLP, bad |-> left.c.err # ""]
    [] OTHER -> InfixLoop(left.c, left.v, precedence)
parse_precedence_new__2(c, precedence, c1, prefix_rule) ==
  CASE prefix_rule = "NULL" -> Rec_v(error_at(c1),
                                   NIL)
    [] OTHER -> parse_precedence_new__3(c, precedence, c1, prefix_rule,
           PrefixCall(c1, prefix_rule))
parse_precedence_new__1(c, precedence, c1) ==
  parse_precedence_new__2(c, precedence, c1,
    PrefixRule(TokenType(Previous(c1))))
parse_precedence_new(c, precedence) ==
  CASE c.err # "" -> [c |-> c, v |-> NULLP, bad |-> c.err # ""]
    [] OTHER -> parse_precedence_new__1(c, precedence,
           parser_advance(c))

\* the while loop of block
BlockLoop__3(c, head, last, count, d, k, c1) ==
  BlockLoop(c1, (IF last = NULLP THEN k.v ELSE head), k.v, count + 1)
BlockLoop__2(c, head, last, count, d, k) ==
  CASE k.bad -> [c |-> k.c, v |-> NULLP, count |-> count, bad |-> k.c.err # ""]
    [] OTHER -> BlockLoop__3(c, head, last, count, d, k,
           IF last = NULLP THEN k.c ELSE setcdr(k.c, last, k.v))
BlockLoop__1(c, head, last, count, d) ==
  CASE d.bad -> [c |-> d.c, v |-> NULLP, count |-> count, bad |-> d.c.err # ""]
    [] OTHER -> BlockLoop__2(c, head, last, count, d,
           fe_cons(d.c, d.v, NIL))
BlockLoop(c, head, last, count) ==
  CASE c.err # "" -> [c |-> c, v |-> NULLP, count |-> count, bad |-> c.err # ""]
    [] check(c, "TOKEN_RBRACE") \/ check(c, "TOKEN_EOF") ->
            [c |-> c, v |-> head, count |-> count, bad |-> c.err # ""]
    [] OTHER -> BlockLoop__1(c, head, last, count,
           declaration(c))

block__3(c, l, c1, one, s) ==
  CASE l.count = 1 -> one
    [] s.bad -> [c |-> s.c, v |-> NULLP, bad |-> s.c.err # ""]
    [] OTHER -> fex_cons_tok(s.c, s.v, l.v)
block__2(c, l, c1) ==
  CASE l.count = 0 -> [c |-> c1, v |-> NIL, bad |-> c1.err # ""]
    [] OTHER -> block__3(c, l, c1,
           fe_car(c1, l.v),
           fe_symbol(c1, "do"))
block__1(c, l) ==
  CASE l.bad -> [c |-> l.c, v |-> NULLP, bad |-> l.c.err # ""]
    [] OTHER -> block__2(c, l,
           consume(l.c, "TOKEN_RBRACE"))
block(c) ==
  block__1(c,
    BlockLoop(c, NIL, NULLP, 0))

\* the do-while over the parameter names: params is in reverse order
ParamLoop__3(c, params, param_count, c1, s, k) ==
  CASE k.bad -> [c |-> k.c, v |-> NULLP, n |-> param_count, bad |-> k.c.err # ""]
    [] check(k.c, "TOKEN_COMMA") ->
            ParamLoop(parser_advance(k.c), k.v, param_count + 1)
    [] OTHER -> [c |-> k.c, v |-> k.v, n |-> param_count + 1, bad |-> k.c.err # ""]
ParamLoop__2(c, params, param_count, c1, s) ==
  CASE s.bad -> [c |-> s.c, v |-> NULLP, n |-> param_count, bad |-> s.c.err # ""]
    [] OTHER -> ParamLoop__3(c, params, param_count, c1, s,
           fe_cons(s.c, s.v, params))
ParamLoop__1(c, params, param_count, c1) ==
  ParamLoop__2(c, params, param_count, c1,
    symbol_from_token(c1, Previous(c1)))
ParamLoop(c, params, param_count) ==
  ParamLoop__1(c, params, param_count,
    consume(c, "TOKEN_IDENTIFIER"))

\* for (i = 0; i < param_count; ++i)
ReverseParams__3(c, params, reversed_params, n, a, k, d) ==
  CASE d.bad -> [c |-> d.c, v |-> NULLP, bad |-> d.c.err # ""]
    [] OTHER -> ReverseParams(d.c, d.v, k.v, n - 1)
ReverseParams__2(c, params, reversed_params, n, a, k) ==
  CASE k.bad -> [c |-> k.c, v |-> NULLP, bad |-> k.c.err # ""]
    [] OTHER -> ReverseParams__3(c, params, reversed_params, n, a, k,
           fe_cdr(k.c, params))
ReverseParams__1(c, params, reversed_params, n, a) ==
  ReverseParams__2(c, params, reversed_params, n, a,
    fe_cons(a.c, a.v, reversed_params))
ReverseParams(c, params, reversed_params, n) ==
  CASE c.err # "" \/ n = 0 -> [c |-> c, v |-> reversed_params, bad |-> c.err # ""]
    [] OTHER -> ReverseParams__1(c, params, reversed_params, n,
           fe_car(c, params))

fn_declaration__7(c, c1, p, r, body, l1, l2, s) ==
  CASE s.bad -> [c |-> s.c, v |-> NULLP, bad |-> s.c.err # ""]
    [] OTHER -> fex_cons_tok(s.c, s.v, l2.v)
fn_declaration__6(c, c1, p, r, body, l1, l2) ==
  CASE l2.bad -> [c |-> l2.c, v |-> NULLP, bad |-> l2.c.err # ""]
    [] OTHER -> fn_declaration__7(c, c1, p, r, body, l1, l2,
           fe_symbol(l2.c, "fn"))
fn_declaration__5(c, c1, p, r, body, l1) ==
  CASE l1.bad -> [c |-> l1.c, v |-> NULLP, bad |-> l1.c.err # ""]
    [] OTHER -> fn_declaration__6(c, c1, p, r, body, l1,
           fe_cons(l1.c, r.v, l1.v))
fn_declaration__4(c, c1, p, r, body) ==
  CASE body.bad -> [c |-> body.c, v |-> NULLP, bad |-> body.c.err # ""]
    [] OTHER -> fn_declaration__5(c, c1, p, r, body,
           fe_cons(body.c, body.v, NIL))
fn_declaration__3(c, c1, p, r) ==
  CASE r.bad -> [c |-> r.c, v |-> NULLP, bad |-> r.c.err # ""]
    [] OTHER -> fn_declaration__4(c, c1, p, r,
           block(consume(r.c, "TOKEN_LBRACE")))
fn_declaration__2(c, c1, p) ==
  CASE p.bad -> [c |-> p.c, v |-> NULLP, bad |-> p.c.err # ""]
    [] OTHER -> fn_declaration__3(c, c1, p,
           ReverseParams(consume(p.c, "TOKEN_RPAREN"), p.v, NIL, p.n))
fn_declaration__1(c, c1) ==
  fn_declaration__2(c, c1,
    IF check(c1, "TOKEN_RPAREN") THEN [c |-> c1, v |-> NIL, n |-> 0, bad |-> c1.err # ""]
    ELSE ParamLoop(c1, NIL, 0))
fn_declaration(c) ==
  fn_declaration__1(c,
    consume(c, "TOKEN_LPAREN"))

module_declaration__7(c, c1, name, c2, body, l1, l2, s) ==
  CASE s.bad -> [c |-> s.c, v |-> NULLP, bad |-> s.c.err # ""]
    [] OTHER -> fex_cons_tok(s.c, s.v, l2.v)
module_declaration__6(c, c1, name, c2, body, l1, l2) ==
  CASE l2.bad -> [c |-> l2.c, v |-> NULLP, bad |-> l2.c.err # ""]
    [] OTHER -> module_declaration__7(c, c1, name, c2, body, l1, l2,
           fe_symbol(l2.c, "module"))
module_declaration__5(c, c1, name, c2, body, l1) ==
  CASE l1.bad -> [c |-> l1.c, v |-> NULLP, bad |-> l1.c.err # ""]
    [] OTHER -> module_declaration__6(c, c1, name, c2, body, l1,
           fe_cons(l1.c, name.v, l1.v))
module_declaration__4(c, c1, name, c2, body) ==
  CASE body.bad -> [c |-> body.c, v |-> NULLP, bad |-> body.c.err # ""]
    [] OTHER -> module_declaration__5(c, c1, name, c2, body,
           fe_cons(body.c, body.v, NIL))
module_declaration__3(c, c1, name, c2) ==
  module_declaration__4(c, c1, name, c2,
    block(c2))
module_declaration__2(c, c1, name) ==
  CASE name.bad -> [c |-> name.c, v |-> NULLP, bad |-> name.c.err # ""]
    [] OTHER -> module_declaration__3(c, c1, name,
           consume(consume(name.c, "TOKEN_RPAREN"), "TOKEN_LBRACE"))
module_declaration__1(c, c1) ==
  module_declaration__2(c, c1,
    IF IsStringLiteral(Previous(c1)) THEN parse_string(c1)
    ELSE fe_string(c1, ""))
module_declaration(c) ==
  module_declaration__1(c,
    consume(consume(c, "TOKEN_LPAREN"), "TOKEN_STRING"))

import_declaration__5(c, c1, name, c2, l, s) ==
  CASE s.bad -> [c |-> s.c, v |-> NULLP, bad |-> s.c.err # ""]
    [] OTHER -> fex_cons_tok(s.c, s.v, l.v)
import_declaration__4(c, c1, name, c2, l) ==
  CASE l.bad -> [c |-> l.c, v |-> NULLP, bad |-> l.c.err # ""]
    [] OTHER -> import_declaration__5(c, c1, name, c2, l,
           fe_symbol(l.c, "import"))
import_declaration__3(c, c1, name, c2) ==
  import_declaration__4(c, c1, name, c2,
    fe_cons(c2, name.v, NIL))
import_declaration__2(c, c1, name) ==
  CASE name.bad -> [c |-> name.c, v |-> NULLP, bad |-> name.c.err # ""]
    [] OTHER -> import_declaration__3(c, c1, name,
           consume(name.c, "TOKEN_SEMICOLON"))
import_declaration__1(c, c1) ==
  import_declaration__2(c, c1,
    symbol_from_token(c1, Previous(c1)))
import_declaration(c) ==
  import_declaration__1(c,
    consume(c, "TOKEN_IDENTIFIER"))

var_declaration__4(c, c1, name, value, c2) ==
  CASE isnil(name.v) -> Rec_v(error_at(c2),
                            NIL)
    [] OTHER -> make_binary(c2, "let", name.v, value.v)
var_declaration__3(c, c1, name, value) ==
  CASE value.bad -> [c |-> value.c, v |-> NULLP, bad |-> value.c.err # ""]
    [] OTHER -> var_declaration__4(c, c1, name, value,
           consume(value.c, "TOKEN_SEMICOLON"))
var_declaration__2(c, c1, name) ==
  CASE name.bad -> [c |-> name.c, v |-> NULLP, bad |-> name.c.err # ""]
    [] OTHER -> var_declaration__3(c, c1, name,
           IF check(name.c, "TOKEN_EQUAL")
           THEN expression(parser_advance(name.c))
           ELSE [c |-> name.c, v |-> NIL, bad |-> name.c.err # ""])
var_declaration__1(c, c1) ==
  var_declaration__2(c, c1,
    symbol_from_token(c1, Previous(c1)))
var_declaration(c) ==
  var_declaration__1(c,
    consume(c, "TOKEN_IDENTIFIER"))

expr_statement__1(c, expr) ==
  Rec_v(consume(expr.c, "TOKEN_SEMICOLON"),
      expr.v)
expr_statement(c) ==
  expr_statement__1(c,
    expression(c))

return_statement__3(c, value, list, r_sym) ==
  CASE r_sym.bad -> [c |-> r_sym.c, v |-> NULLP, bad |-> r_sym.c.err # ""]
    [] OTHER -> fex_cons_tok(r_sym.c, r_sym.v, list.v)
return_statement__2(c, value, list) ==
  CASE list.bad -> [c |-> list.c, v |-> NULLP, bad |-> list.c.err # ""]
    [] OTHER -> return_statement__3(c, value, list,
           fe_symbol(list.c, "return"))
return_statement__1(c, value) ==
  CASE value.bad -> [c |-> value.c, v |-> NULLP, bad |-> value.c.err # ""]
    [] OTHER -> return_statement__2(c, value,
           fe_cons(consume(value.c, "TOKEN_SEMICOLON"), value.v, NIL))
return_statement(c) ==
  return_statement__1(c,
    IF check(c, "TOKEN_SEMICOLON") THEN [c |-> c, v |-> NIL, bad |-> c.err # ""]
    ELSE expression(c))

if_statement__7(c, condition, then_branch, else_branch, l1, l2, l3, s) ==
  CASE s.bad -> [c |-> s.c, v |-> NULLP, bad |-> s.c.err # ""]
    [] OTHER -> fex_cons_tok(s.c, s.v, l3.v)
if_statement__6(c, condition, then_branch, else_branch, l1, l2, l3) ==
  CASE l3.bad -> [c |-> l3.c, v |-> NULLP, bad |-> l3.c.err # ""]
    [] OTHER -> if_statement__7(
           c, condition, then_branch, else_branch, l1, l2, l3,
           fe_symbol(l3.c, "if"))
if_statement__5(c, condition, then_branch, else_branch, l1, l2) ==
  CASE l2.bad -> [c |-> l2.c, v |-> NULLP, bad |-> l2.c.err # ""]
    [] OTHER -> if_statement__6(c, condition, then_branch, else_branch, l1, l2,
           fe_cons(l2.c, condition.v, l2.v))
if_statement__4(c, condition, then_branch, else_branch, l1) ==
  CASE l1.bad -> [c |-> l1.c, v |-> NULLP, bad |-> l1.c.err # ""]
    [] OTHER -> if_statement__5(c, condition, then_branch, else_branch, l1,
           fe_cons(l1.c, then_branch.v, l1.v))
if_statement__3(c, condition, then_branch, else_branch) ==
  CASE else_branch.bad -> [c |-> else_branch.c, v |-> NULLP, bad |-> else_branch.c.err # ""]
    [] OTHER -> if_statement__4(c, condition, then_branch, else_branch,
           fe_cons(else_branch.c, else_branch.v, NIL))
if_statement__2(c, condition, then_branch) ==
  CASE then_branch.bad -> [c |-> then_branch.c, v |-> NULLP, bad |-> then_branch.c.err # ""]
    [] OTHER -> if_statement__3(c, condition, then_branch,
           IF check(then_branch.c, "TOKEN_ELSE")
           THEN statement(parser_advance(then_branch.c))
           ELSE [c |-> then_branch.c, v |-> NIL, bad |-> then_branch.c.err # ""])
if_statement__1(c, condition) ==
  CASE condition.bad -> [c |-> condition.c, v |-> NULLP, bad |-> condition.c.err # ""]
    [] OTHER -> if_statement__2(c, condition,
           statement(consume(condition.c, "TOKEN_RPAREN")))
if_statement(c) ==
  if_statement__1(c,
    expression(consume(c, "TOKEN_LPAREN")))

while_statement__5(c, condition, body, l1, l2, s) ==
  CASE s.bad -> [c |-> s.c, v |-> NULLP, bad |-> s.c.err # ""]
    [] OTHER -> fex_cons_tok(s.c, s.v, l2.v)
while_statement__4(c, condition, body, l1, l2) ==
  CASE l2.bad -> [c |-> l2.c, v |-> NULLP, bad |-> l2.c.err # ""]
    [] OTHER -> while_statement__5(c, condition, body, l1, l2,
           fe_symbol(l2.c, "while"))
while_statement__3(c, condition, body, l1) ==
  CASE l1.bad -> [c |-> l1.c, v |-> NULLP, bad |-> l1.c.err # ""]
    [] OTHER -> while_statement__4(c, condition, body, l1,
           fe_cons(l1.c, condition.v, l1.v))
while_statement__2(c, condition, body) ==
  CASE body.bad -> [c |-> body.c, v |-> NULLP, bad |-> body.c.err # ""]
    [] OTHER -> while_statement__3(c, condition, body,
           fe_cons(body.c, body.v, NIL))
while_statement__1(c, condition) ==
  CASE condition.bad -> [c |-> condition.c, v |-> NULLP, bad |-> condition.c.err # ""]
    [] OTHER -> while_statement__2(c, condition,
           statement(consume(condition.c, "TOKEN_RPAREN")))
while_statement(c) ==
  while_statement__1(c,
    expression(consume(c, "TOKEN_LPAREN")))

\* the while loop of synchronize, after panic_mode has been cleared
SyncLoop(c) ==
  CASE check(c, "TOKEN_EOF") -> c
    [] TokenType(Previous(c)) = "TOKEN_SEMICOLON" -> c
    [] TokenType(Current(c)) \in {"TOKEN_FN", "TOKEN_LET", "TOKEN_IF",
                                  "TOKEN_WHILE", "TOKEN_RETURN"} -> c
    [] OTHER -> SyncLoop(parser_advance(c))

synchronize(c) ==
  IF c.err # "" THEN c ELSE SyncLoop([c EXCEPT !.P.panic_mode = FALSE])

statement(c) ==
  CASE check(c, "TOKEN_RETURN") -> return_statement(parser_advance(c))
    [] check(c, "TOKEN_IF") -> if_statement(parser_advance(c))
    [] check(c, "TOKEN_WHILE") -> while_statement(parser_advance(c))
    [] check(c, "TOKEN_LBRACE") -> block(parser_advance(c))
    [] OTHER -> expr_statement(c)

declaration__6(c, is_export, c1, var, c2, stmt, name, fn_expr, fn, decl) ==
  CASE (check(c1, "TOKEN_LET") \/ check(c1, "TOKEN_FN")) /\ decl.bad ->
            decl
    [] (check(c1, "TOKEN_LET") \/ check(c1, "TOKEN_FN")) /\ is_export ->
            make_unary(decl.c, "export", decl.v)
    [] check(c1, "TOKEN_LET") \/ check(c1, "TOKEN_FN") -> decl
    [] stmt.bad -> stmt
    [] stmt.c.P.panic_mode -> Rec_v(synchronize(stmt.c),
                                  stmt.v)
    [] OTHER -> stmt
declaration__5(c, is_export, c1, var, c2, stmt, name, fn_expr, fn) ==
  declaration__6(c, is_export, c1, var, c2, stmt, name, fn_expr, fn,
    IF check(c1, "TOKEN_LET") THEN var ELSE fn)
declaration__4(c, is_export, c1, var, c2, stmt, name, fn_expr) ==
  CASE check(c1, "TOKEN_FN") /\ fn_expr.bad ->
            [c |-> fn_expr.c, v |-> NULLP, bad |-> fn_expr.c.err # ""]
    [] OTHER -> declaration__5(c, is_export, c1, var, c2, stmt, name, fn_expr,
           make_binary(fn_expr.c, "let", name.v, fn_expr.v))
declaration__3(c, is_export, c1, var, c2, stmt, name) ==
  CASE check(c1, "TOKEN_FN") /\ name.bad -> [c |-> name.c, v |-> NULLP, bad |-> name.c.err # ""]
    [] OTHER -> declaration__4(c, is_export, c1, var, c2, stmt, name,
           fn_declaration(name.c))
declaration__2(c, is_export, c1, var, c2, stmt) ==
  declaration__3(c, is_export, c1, var, c2, stmt,
    symbol_from_token(c2, Previous(c2)))
declaration__1(c, is_export, c1) ==
  declaration__2(c, is_export, c1,
    var_declaration(parser_advance(c1)),
    consume(parser_advance(c1), "TOKEN_IDENTIFIER"),
    statement(IF is_export THEN error_at(c1) ELSE c1))
declaration(c) ==
  CASE c.err # "" -> [c |-> c, v |-> NULLP, bad |-> c.err # ""]
    [] check(c, "TOKEN_MODULE") -> module_declaration(parser_advance(c))
    [] check(c, "TOKEN_IMPORT") -> import_declaration(parser_advance(c))
    [] OTHER -> declaration__1(c,
           check(c, "TOKEN_EXPORT"),
           parser_match(c, "TOKEN_EXPORT"))

\* the while loop of fex_compile
RECURSIVE CompileLoop(_, _, _, _, _)
CompileLoop__5(c, head, last, count, gc_base, c1, c2, node, k, c3) ==
  CASE c3.P.had_error ->
            [c |-> c3, v |-> (IF last = NULLP THEN k.v ELSE head), count |-> count + 1, bad |-> c3.err # ""]
    [] OTHER ->
            CompileLoop(c3, (IF last = NULLP THEN k.v ELSE head), k.v, count + 1, gc_base)
CompileLoop__4(c, head, last, count, gc_base, c1, c2, node, k) ==
  CASE k.bad -> [c |-> k.c, v |-> NULLP, count |-> count, bad |-> k.c.err # ""]
    [] OTHER -> CompileLoop__5(c, head, last, count, gc_base, c1, c2, node, k,
           IF last = NULLP THEN k.c ELSE setcdr(k.c, last, k.v))
CompileLoop__3(c, head, last, count, gc_base, c1, c2, node) ==
  CASE node.bad -> [c |-> node.c, v |-> NULLP, count |-> count, bad |-> node.c.err # ""]
    [] OTHER -> CompileLoop__4(c, head, last, count, gc_base, c1, c2, node,
           fe_cons(fe_pushgc(node.c, node.v), node.v, NIL))
CompileLoop__2(c, head, last, count, gc_base, c1, c2) ==
  CASE c2.err # "" -> [c |-> c2, v |-> NULLP, count |-> count, bad |-> c2.err # ""]
    [] OTHER -> CompileLoop__3(c, head, last, count, gc_base, c1, c2,
           declaration(c2))
CompileLoop__1(c, head, last, count, gc_base, c1) ==
  CompileLoop__2(c, head, last, count, gc_base, c1,
    IF isnil(head) THEN c1 ELSE fe_pushgc(c1, head))
CompileLoop(c, head, last, count, gc_base) ==
  CASE c.err # "" -> [c |-> c, v |-> NULLP, count |-> count, bad |-> c.err # ""]
    [] check(c, "TOKEN_EOF") ->
            Rec_v_count(parser_advance(c),
                head,
                count)
    [] OTHER -> CompileLoop__1(c, head, last, count, gc_base,
           fe_restoregc(c, gc_base))

\* history only: the cells of the tree a program consists of
AstCells(c, program) == ReachFrom(c, [seen |-> {}, front |-> {program}])

\* fex_compile: NULLP for NULL.  The histories of the compilation are kept in
\* c.alog (every allocation, with the arena and the roots at that moment)
\* and c.ast (the cells of the returned program)
fex_compile__5(c, source, c0, l, one, s, many, c1) ==
  CASE c1.err # "" -> Rec_v([c1 EXCEPT !.trace = FALSE],
                          NULLP)
    [] OTHER ->
            Rec_v([c1 EXCEPT !.trace = FALSE,
                              !.ast = AstCells(c1, (CASE l.count = 0 -> [c |-> l.c, v |-> NIL] [] l.count = 1 -> one [] OTHER -> many).v)],
                (CASE l.count = 0 -> [c |-> l.c, v |-> NIL] [] l.count = 1 -> one [] OTHER -> many).v)
fex_compile__4(c, source, c0, l, one, s, many) ==
  fex_compile__5(c, source, c0, l, one, s, many,
    fe_pushgc((CASE l.count = 0 -> [c |-> l.c, v |-> NIL, bad |-> l.c.err # ""] [] l.count = 1 -> one [] OTHER -> many).c, (CASE l.count = 0 -> [c |-> l.c, v |-> NIL, bad |-> l.c.err # ""] [] l.count = 1 -> one [] OTHER -> many).v))
fex_compile__3(c, source, c0, l, one, s) ==
  CASE l.count > 1 /\ s.bad ->
            Rec_v([s.c EXCEPT !.trace = FALSE],
                NULLP)
    [] OTHER -> fex_compile__4(c, source, c0, l, one, s,
           fex_cons_tok(s.c, s.v, l.v))
fex_compile__2(c, source, c0, l) ==
  CASE l.bad -> Rec_v([l.c EXCEPT !.trace = FALSE],
                           NULLP)
    [] l.c.P.had_error -> Rec_v([l.c EXCEPT !.trace = FALSE],
                              NULLP)
    [] OTHER -> fex_compile__3(c, source, c0, l,
           fe_car(l.c, l.v),
           fe_symbol(l.c, "do"))
fex_compile__1(c, source, c0) ==
  fex_compile__2(c, source, c0,
    CompileLoop(c0, NIL, NULLP, 0, fe_savegc(c0)))
fex_compile(c, source) ==
  CASE c.err # "" -> [c |-> c, v |-> NULLP, bad |-> c.err # ""]
    [] OTHER -> fex_compile__1(c, source,
           [c EXCEPT !.P = [toks |-> source, pos |-> 1, had_error |-> FALSE,
                            panic_mode |-> FALSE],
                     !.trace = TRUE])

\* history only: fex_do_string has returned; gc_save is the depth of the root
\* stack at its entry (c.ds is kept from one line to the next)
DoStringReturned(c, gc_save, compiled) ==
  [c EXCEPT !.ds = Explicit(@ \cup {[compiled |-> compiled, entry |-> gc_save,
                                      exit |-> fe_savegc(c)]})]

\* fex_do_string: NULLP when the source does not compile
fex_do_string__2(c, source, code, res) ==
  CASE res.bad -> [c |-> res.c, v |-> NULLP, bad |-> res.c.err # ""]
    [] OTHER ->
            Rec_v(DoStringReturned(fe_restoregc(res.c, fe_savegc(c)), fe_savegc(c), TRUE),
                res.v)
fex_do_string__1(c, source, code) ==
  CASE code.bad -> [c |-> code.c, v |-> NULLP, bad |-> code.c.err # ""]
    [] code.v = NULLP ->
            Rec_v(DoStringReturned(fe_restoregc(code.c, fe_savegc(c)), fe_savegc(c),
                                    FALSE),
                NULLP)
    [] OTHER -> fex_do_string__2(c, source, code,
           fe_eval(fe_pushgc(code.c, code.v), code.v))
fex_do_string(c, source) ==
  fex_do_string__1(c, source,
    fex_compile(c, source))

\* fex_init_with_config: the two arguments of fe_set are evaluated in either
\* order (`symfirst`: the symbol is interned before the function cell is made)
RegisterCFunc__2(c, name, fn, symfirst, s1, f2, f1, s2) ==
  CASE symfirst -> << s1, f1, fe_set(f1.c, s1.v, f1.v) >>[3]
    [] OTHER -> << f2, s2, fe_set(s2.c, s2.v, f2.v) >>[3]
RegisterCFunc__1(c, name, fn, symfirst, s1, f2) ==
  RegisterCFunc__2(c, name, fn, symfirst, s1, f2,
    fe_cfunc(s1.c, fn),
    fe_symbol(f2.c, name))
RegisterCFunc(c, name, fn, symfirst) ==
  RegisterCFunc__1(c, name, fn, symfirst,
    fe_symbol(c, name),
    fe_cfunc(c, fn))

fex_init_with_config__2(c, symfirst, c1, c2) ==
  << c1, c2, fe_restoregc(c2, fe_savegc(c)) >>[3]
fex_init_with_config__1(c, symfirst, c1) ==
  fex_init_with_config__2(c, symfirst, c1,
    RegisterCFunc(c1, "println", CFUNC_PRINTLN, symfirst))
fex_init_with_config(c, symfirst) ==
  fex_init_with_config__1(c, symfirst,
    RegisterCFunc([c EXCEPT !.handler = "fex_on_error"],
                  "print", CFUNC_PRINT, symfirst))

(***************************************************************************)
(* The host: the read-eval-print loop of main().  `ctx` is the process     *)
(* with the header of the context in use, `host` the locals of main,       *)
(* `out` what the loop has written for each input.                         *)
(***************************************************************************)
VARIABLES ctx, host, out

vars == << ctx, host, out >>

\* the histories kept for one input
ResetLogs(c) ==
  [c EXCEPT !.alog = << >>, !.gclog = << >>, !.mlog = << >>, !.xlog = << >>,
            !.ast = {}, !.evd = {}, !.prd = {}, !.hd = {}]

\* onerror: the message is printed and control returns to the top of the loop;
\* a process that has stopped or does not return stays as it is
Stopped(c) == c.err = "SIGSEGV" \/ c.err = "<running>"
onerror(c) == IF Stopped(c) THEN c ELSE [c EXCEPT !.err = ""]

\* one pass of `for (;;)` in main on the input `toks`
ReplStep__2(c, gc, toks, r, e) ==
  CASE e.bad -> [c |-> e.c, text |-> "", bad |-> e.c.err # ""]
    [] OTHER -> [c |-> e.c, text |-> fe_write(e.c, e.v, FALSE, Len(e.c.mem)), bad |-> e.c.err # ""]
ReplStep__1(c, gc, toks, r) ==
  CASE r.bad -> [c |-> r.c, text |-> "", bad |-> r.c.err # ""]
    [] OTHER -> ReplStep__2(c, gc, toks, r,
           fe_eval(r.c, r.v))
ReplStep(c, gc, toks) ==
  ReplStep__1(c, gc, toks,
    fe_read(fe_restoregc(c, gc), toks, 1))

Inputs ==
  << \* 1: a counter closure over n, called three times
     << "(", "do",
        "(", "=", "mk", "(", "fn", "(", ")", "(", "do",
             "(", "let", "n", "0", ")",
             "(", "fn", "(", ")", "(", "do",
                  "(", "=", "n", "(", "+", "n", "1", ")", ")", "n", ")", ")",
             ")", ")", ")",
        "(", "=", "c", "(", "mk", ")", ")",
        "(", "list", "(", "c", ")", "(", "c", ")", "(", "c", ")", ")", ")" >>,
     \* 2: return inside while inside a function, the loop condition constant
     << "(", "do",
        "(", "=", "f", "(", "fn", "(", ")", "(", "do",
             "(", "while", "true", "(", "return", "7", ")", ")",
             "(", "return", "9", ")", ")", ")", ")",
        "(", "f", ")", ")" >>,
     \* 3: return inside while inside a function, the loop condition cleared
     << "(", "do",
        "(", "=", "g", "(", "fn", "(", ")", "(", "do",
             "(", "let", "k", "true", ")",
             "(", "while", "k", "(", "=", "k", "false", ")",
                  "(", "return", "7", ")", ")",
             "(", "return", "9", ")", ")", ")", ")",
        "(", "g", ")", ")" >>,
     \* 4: a macro call inside a function that is called twice
     << "(", "do",
        "(", "=", "m", "(", "mac", "(", "x", ")",
             "(", "list", "'", "+", "x", "1", ")", ")", ")",
        "(", "=", "h", "(", "fn", "(", ")", "(", "m", "5", ")", ")", ")",
        "(", "list", "(", "h", ")", "(", "h", ")", ")", ")" >>,
     \* 5: a function with two let statements
     << "(", "=", "w", "(", "fn", "(", "a", ")", "(", "do",
             "(", "let", "u", "x", ")", "(", "let", "v", "y", ")",
             "(", "cons", "u", "v", ")", ")", ")", ")" >>,
     \* 6: a call of the counter of input 1
     << "(", "c", ")" >>,
     \* 7: a list
     << "(", "=", "l", "(", "list", "1", "2", "3", ")", ")" >>,
     \* 8: two more calls of the function of input 4
     << "(", "list", "(", "h", ")", "(", "h", ")", ")" >>,
     \* 9: a call of a function whose body is a quoted list that starts with
     \* the symbol return
     << "(", "(", "fn", "(", ")", "'", "(", "return", "1", ")", ")", ")" >>,
     \* 10: a do whose first statement constructs such a list
     << "(", "do", "(", "list", "'", "return", "1", ")", "2", ")" >>,
     \* 11: a call of a function whose body evaluates a return form
     << "(", "(", "fn", "(", ")", "(", "do", "(", "return", "5", ")", "6", ")",
        ")", ")" >>,
     \* 12: a call of a macro whose body is a string
     << "(", "do", "(", "=", "s", "(", "mac", "(", ")", "\"a\"", ")", ")",
        "(", "s", ")", ")" >> >>

MinArena == 250
MaxArena == 252
ArenaSizes == MinArena..MaxArena
MaxInputs == 2
GcBase(c) == fe_savegc(c)

Init ==
  /\ \E n \in ArenaSizes : ctx = fe_open(Process0, n, NULLP)
  /\ host = [gc |-> GcBase(ctx)]
  /\ out = << >>

Repl(p) ==
  /\ ~Stopped(ctx)
  /\ Len(out) < MaxInputs
  /\ \E r \in {ReplStep(ResetLogs(ctx), host.gc, Inputs[p])} :
       /\ ctx' = onerror(r.c)
       /\ out' = Append(out, [input |-> p, err |-> r.c.err, text |-> r.text,
                              expansions |-> Len(r.c.mlog),
                              collections |-> Len(r.c.gclog)])
  /\ UNCHANGED host

Next == \E p \in 1..Len(Inputs) : Repl(p)

Spec == Init /\ [][Next]_vars

(***************************************************************************)
(* The host of FeX: main() of main.c up to run_repl, then one pass of its  *)
(* loop per input line.  The handler of the loop is on_error, which        *)
(* returns to the top of the loop and leaves the root stack as it is.      *)
(***************************************************************************)
FexInputs ==
  << \* 1: return inside while inside a function, the loop condition constant
     << "fn", "f", "(", ")", "{",
          "while", "(", "true", ")", "{", "return", "7", ";", "}",
          "return", "9", ";", "}",
        "f", "(", ")", ";" >>,
     \* 2: return inside while inside a function, the loop condition cleared
     << "fn", "g", "(", ")", "{", "let", "k", "=", "true", ";",
          "while", "(", "k", ")", "{", "k", "=", "false", ";",
                                       "return", "7", ";", "}",
          "return", "9", ";", "}",
        "g", "(", ")", ";" >>,
     \* 3: the counter closure of the language guide
     << "fn", "make_counter", "(", ")", "{", "let", "n", "=", "0", ";",
          "fn", "(", ")", "{", "n", "=", "n", "+", "1", ";",
                               "return", "n", ";", "}", "}",
        "let", "c", "=", "make_counter", "(", ")", ";",
        "c", "(", ")", ";", "c", "(", ")", ";", "c", "(", ")", ";" >>,
     \* 4: a sum whose right operand is a product
     << "1", "+", "2", "+", "3", "*", "4", ";" >>,
     \* 5: a statement that does not parse
     << "let", "=", "1", ";", "println", "(", "\"a\"", ")", ";" >>,
     \* 6: a call of a host function
     << "print", "(", "7", ")", ";" >> >>

\* the arenas: one that the second line fills, one that holds every line
SmallFexArena == 182
LargeFexArena == 300
FexArenaSizes == {SmallFexArena, LargeFexArena}
MaxFexInputs == 2

InitFex ==
  /\ \E n \in FexArenaSizes, symfirst \in BOOLEAN :
       \E c0 \in {fe_open(Process0, n, NULLP)} :
         \E c1 \in {fex_init_with_config(c0, symfirst)} :
           ctx = [c1 EXCEPT !.handler = "on_error"]
  /\ host = [gc |-> fe_savegc(ctx)]
  /\ out = << >>

\* one pass of the loop of run_repl: fex_do_string on the line, then the
\* result is written when it is not NULL
FexLine__1(c, source, r) ==
  [c |-> r.c,
   text |-> IF ~Failed(r.c) /\ r.v # NULLP
            THEN fe_write(r.c, r.v, FALSE, Len(r.c.mem)) ELSE "", bad |-> r.c.err # ""]
FexLine(c, source) ==
  FexLine__1(c, source,
    fex_do_string(c, source))

FexRepl(p) ==
  /\ ~Stopped(ctx)
  /\ Len(out) < MaxFexInputs
  /\ \E r \in {FexLine(ResetLogs(ctx), FexInputs[p])} :
       /\ ctx' = onerror(r.c)
       /\ out' = Append(out, [input |-> p, err |-> r.c.err, text |-> r.text,
                              compiled |-> ~r.c.P.had_error])
  /\ UNCHANGED host

NextFex == \E p \in 1..Len(FexInputs) : FexRepl(p)

SpecFex == InitFex /\ [][NextFex]_vars

(***************************************************************************)
(* A client of the allocator: fe_open, then calls of fe_cons whose results *)
(* are dropped (the root stack is restored before each call, as the loop   *)
(* of main() does), and a last call of fe_symbol.  The histories of the    *)
(* latest call are in ctx.alog and ctx.gclog.                              *)
(***************************************************************************)
SmallGcArena == 170
LargeGcArena == 1030
GcArenaSizes == {SmallGcArena, LargeGcArena}
MaxApiCalls == 870
SymbolNames == {"x", "do"}

InitGc ==
  /\ \E n \in GcArenaSizes : ctx = fe_open(Process0, n, NULLP)
  /\ host = [gc |-> fe_savegc(ctx), calls |-> 0, done |-> FALSE]
  /\ out = << >>

\* fe_restoregc(ctx, gc); fe_cons(ctx, nil, nil);
ApiCons ==
  /\ ~host.done
  /\ host.calls < MaxApiCalls
  /\ \E r \in {fe_cons(fe_restoregc(ResetLogs(ctx), host.gc), NIL, NIL)} :
       /\ ctx' = onerror(r.c)
       /\ out' = << [op |-> "fe_cons", v |-> r.v, err |-> r.c.err] >>
  /\ host' = [host EXCEPT !.calls = @ + 1]

\* fe_restoregc(ctx, gc); fe_symbol(ctx, name); and the client is done
ApiSymbol(name) ==
  /\ ~host.done
  /\ \E r \in {fe_symbol(fe_restoregc(ResetLogs(ctx), host.gc), name)} :
       /\ ctx' = onerror(r.c)
       /\ out' = << [op |-> "fe_symbol", v |-> r.v, err |-> r.c.err] >>
  /\ host' = [host EXCEPT !.calls = @ + 1, !.done = TRUE]

NextGc == ApiCons \/ \E name \in SymbolNames : ApiSymbol(name)

SpecGc == InitGc /\ [][NextGc]_vars

(***************************************************************************)
(* A client that keeps what it allocates: every fe_cons leaves its cell on *)
(* the root stack.  When an error is raised the handler returns to the     *)
(* client, which restores the root stack to its base and goes on.          *)
(***************************************************************************)
OomArena == 1180
MaxKeepCalls == 2040

InitOom ==
  /\ ctx = fe_open(Process0, OomArena, NULLP)
  /\ host = [gc |-> fe_savegc(ctx), calls |-> 0, errors |-> 0]
  /\ out = << >>

\* fe_cons(ctx, nil, nil), the cell stays on the root stack
ApiKeep ==
  /\ host.calls < MaxKeepCalls
  /\ host.errors < 2
  /\ \E r \in {fe_cons(ResetLogs(ctx), NIL, NIL)} :
       /\ ctx' = fe_restoregc(onerror(r.c),
                              IF r.bad THEN host.gc ELSE fe_savegc(r.c))
       /\ out' = << [op |-> "fe_cons", v |-> r.v, err |-> r.c.err] >>
       /\ host' = [host EXCEPT !.calls = @ + 1,
                               !.errors = IF r.bad THEN @ + 1 ELSE @]

NextOom == ApiKeep

SpecOom == InitOom /\ [][NextOom]_vars

(***************************************************************************)
(* A client of the root stack: pushes of the symbol t and of immediates,   *)
(* one at a time or PushBatch at a time, fe_savegc, and fe_restoregc with  *)
(* a value fe_savegc has returned.  `out` holds the latest call of         *)
(* fe_pushgc: the stack before and after it and the error it raised.       *)
(***************************************************************************)
RootsArena == 170
PushBatch == 254
PushChunk == 64
MaxRootOps == 7

InitRoots ==
  /\ ctx = fe_open(Process0, RootsArena, NULLP)
  /\ host = [base |-> fe_savegc(ctx), saved |-> fe_savegc(ctx), ops |-> 0]
  /\ out = << >>

Pushed(c, obj, r) ==
  [op |-> "fe_pushgc", obj |-> obj, before |-> c.gcstack,
   after |-> r.gcstack, err |-> r.err]

\* for (i = 0; i < n; i++) fe_pushgc(ctx, obj); the context before the
\* latest call that was made, and after it (the loop is evaluated
\* PushChunk calls at a time)
RECURSIVE PushLoop(_, _, _)
PushLoop__1(c, obj, n, r, h) ==
  CASE n > PushChunk /\ h.bad -> h
    [] n > PushChunk -> PushLoop(h.c, obj, n - PushChunk)
    [] n <= 1 \/ r.err # "" -> [c |-> r, prev |-> c, bad |-> r.err # ""]
    [] OTHER -> PushLoop(r, obj, n - 1)
PushLoop(c, obj, n) ==
  PushLoop__1(c, obj, n,
    fe_pushgc(c, obj),
    PushLoop(c, obj, PushChunk))

PushObjects(c) == {c.t, NIL, FE_TRUE, FE_FIXNUM(0)}

ApiPush(obj, n) ==
  /\ host.ops < MaxRootOps
  /\ \E r \in {PushLoop(ctx, obj, n)} :
       /\ ctx' = onerror(r.c)
       /\ out' = << Pushed(r.prev, obj, r.c) >>
  /\ host' = [host EXCEPT !.ops = @ + 1]

ApiSave ==
  /\ host.ops < MaxRootOps
  /\ host.saved # fe_savegc(ctx)
  /\ host' = [host EXCEPT !.saved = fe_savegc(ctx), !.ops = @ + 1]
  /\ UNCHANGED << ctx, out >>

\* fe_restoregc with one of the two values the client holds, below or above
\* the present depth
ApiRestore ==
  /\ host.ops < MaxRootOps
  /\ \E idx \in {host.base, host.saved} :
       /\ idx # fe_savegc(ctx)
       /\ ctx' = fe_restoregc(ctx, idx)
  /\ host' = [host EXCEPT !.ops = @ + 1]
  /\ UNCHANGED out

NextRoots ==
  \/ \E obj \in PushObjects(ctx) : ApiPush(obj, 1)
  \/ ApiPush(ctx.t, PushBatch)
  \/ ApiSave
  \/ ApiRestore

SpecRoots == InitRoots /\ [][NextRoots]_vars

(***************************************************************************)
(* Two contexts in one process.  Context A is opened first, context B may  *)
(* be opened later in memory of its own; each step reads and evaluates one *)
(* input in A or in B.  `ctx` is the process with the header of the        *)
(* context that ran last, host.other the header of the other context.      *)
(* host.ref is a second process, in which the same inputs are given to A   *)
(* and B is never opened; host.refout is what A writes there.              *)
(***************************************************************************)
\* the process `proc` with the header of the context `hdr`
Enter(proc, hdr) ==
  [hdr EXCEPT !.mem = proc.mem, !.marked = proc.marked, !.bufs = proc.bufs,
              !.dfree = proc.dfree, !.st = proc.st, !.P = proc.P]

ContextA == IF host.which = "A" THEN ctx ELSE Enter(ctx, host.other)
ContextB == IF host.which = "B" THEN ctx ELSE Enter(ctx, host.other)

\* what a context consists of: its header and the cells of its arena
View(c) ==
  [cells |-> SubSeq(c.mem, c.base + 1, c.base + c.object_count),
   marked |-> { x \in c.marked : InArena(c, x) },
   gcstack |-> c.gcstack, freelist |-> c.freelist, symlist |-> c.symlist,
   modulestack |-> c.modulestack, t |-> c.t, calllist |-> c.calllist,
   live_count |-> c.live_count, allocs_since_gc |-> c.allocs_since_gc,
   gc_threshold |-> c.gc_threshold]

TwoInputs == {1, 6, 7}
ArenaA == 300
TwoArenaSizes == {ArenaA, ArenaA + 1}
ArenaB == 200
MaxTwoOps == 3

InitTwo ==
  /\ \E n \in TwoArenaSizes : ctx = fe_open(Process0, n, NULLP)
  /\ host = [which |-> "A", opened |-> FALSE, other |-> ctx, ref |-> ctx,
             refout |-> << >>, gc |-> fe_savegc(ctx), ops |-> 0]
  /\ out = << >>

OpenB ==
  /\ ~host.opened
  /\ host.ops < MaxTwoOps
  /\ ~Stopped(ctx)
  /\ ctx' = fe_open(ctx, ArenaB, NULLP)
  /\ host' = [host EXCEPT !.which = "B", !.opened = TRUE, !.other = ctx,
                          !.ops = @ + 1]
  /\ UNCHANGED out

Line(r, p) == [input |-> p, err |-> r.c.err, text |-> r.text]

ReplA(p) ==
  /\ host.ops < MaxTwoOps
  /\ ~Stopped(ctx)
  /\ ~Stopped(host.ref)
  /\ \E r \in {ReplStep(ResetLogs(ContextA), host.gc, Inputs[p])} :
       \E q \in {ReplStep(ResetLogs(host.ref), host.gc, Inputs[p])} :
         /\ ctx' = onerror(r.c)
         /\ out' = Append(out, Line(r, p))
         /\ host' = [host EXCEPT !.which = "A",
                                 !.other = IF host.which = "A" THEN @ ELSE ctx,
                                 !.ref = onerror(q.c),
                                 !.refout = Append(@, Line(q, p)),
                                 !.ops = @ + 1]

ReplB(p) ==
  /\ host.opened
  /\ host.ops < MaxTwoOps
  /\ ~Stopped(ctx)
  /\ \E r \in {ReplStep(ResetLogs(ContextB), host.gc, Inputs[p])} :
       /\ ctx' = onerror(r.c)
       /\ host' = [host EXCEPT !.which = "B",
                               !.other = IF host.which = "B" THEN @ ELSE ctx,
                               !.ops = @ + 1]
  /\ UNCHANGED out

NextTwo ==
  \/ OpenB
  \/ \E p \in TwoInputs : ReplA(p)
  \/ \E p \in TwoInputs : ReplB(p)

SpecTwo == InitTwo /\ [][NextTwo]_vars

(***************************************************************************)
(* fe_make_number on the bit patterns of a word.  The build has a word of  *)
(* 64 bits and an fe_Number (double) of 53 significant bits; the word here *)
(* has WordBits bits and the fe_Number MantBits significant bits, with     *)
(* MantBits < WordBits - 2 as 53 < 62.  The client passes an integer,      *)
(* which the call converts to fe_Number.                                   *)
(***************************************************************************)
WordBits == 8
MantBits == 4

RECURSIVE Pow2(_)
Pow2(k) == IF k = 0 THEN 1 ELSE 2 * Pow2(k - 1)

IntMin == -Pow2(WordBits - 1)
IntMax == Pow2(WordBits - 1) - 1
FixMin == -Pow2(WordBits - 2)
FixMax == Pow2(WordBits - 2) - 1

\* a value of type intptr_t: the low WordBits bits, two's complement
Wrap(x) == ((x - IntMin) % Pow2(WordBits)) + IntMin

\* the distance between two fe_Numbers around the magnitude a
RECURSIVE Ulp(_, _)
Ulp(a, q) == IF a < q * Pow2(MantBits) THEN q ELSE Ulp(a, 2 * q)

\* the multiple of q nearest to a, the even one of two at the same distance
RoundTo(a, q) ==
  LET lo == (a \div q) * q
      rem == a - lo
  IN CASE 2 * rem < q -> lo
       [] 2 * rem > q -> lo + q
       [] (a \div q) % 2 = 0 -> lo
       [] OTHER -> lo + q

\* (fe_Number)n for an integer n
ToNumber(n) ==
  IF n >= 0 THEN RoundTo(n, Ulp(n, 1)) ELSE -RoundTo(-n, Ulp(-n, 1))

\* (intptr_t)v for an integral fe_Number v: v when v is a value of intptr_t;
\* undefined otherwise, where the builds yield the least intptr_t (cvttsd2si)
\* or the nearest one (fcvtzs)
CastOutcomes(v) ==
  IF v >= IntMin /\ v <= IntMax THEN {v}
  ELSE {IntMin, IF v > 0 THEN IntMax ELSE IntMin}

\* FE_FIXNUM, FE_IS_FIXNUM and FE_UNBOX_FIXNUM on words
WordFixnum(i) == Wrap(2 * i + 1)
WordIsFixnum(x) == x % 2 = 1
WordUnbox(x) == x \div 2

\* fe_make_number(ctx, v), `i` being the outcome of (intptr_t)v
WordMakeNumber__1(c, v, i, iv, shr, box) ==
  CASE v = iv /\ (shr = 0 \/ shr = -1) ->
            [c |-> c, v |-> NULLP, fix |-> TRUE, word |-> WordFixnum(i), bad |-> c.err # ""]
    [] OTHER -> [c |-> box.c, v |-> box.v, fix |-> FALSE, word |-> 0, bad |-> box.c.err # ""]
WordMakeNumber(c, v, i) ==
  WordMakeNumber__1(c, v, i,
    ToNumber(i),
    i \div Pow2(WordBits - 2),
    fe_number(c, v))

NumArena == 200
NumSlack == 8
NumInputs == (IntMin - NumSlack)..(IntMax + NumSlack)

InitNum ==
  /\ ctx = fe_open(Process0, NumArena, NULLP)
  /\ \E n \in NumInputs : host = [n |-> n]
  /\ out = << >>

\* the client calls fe_make_number(ctx, n)
ApiMakeNumber ==
  /\ out = << >>
  /\ \E i \in CastOutcomes(ToNumber(host.n)) :
       \E r \in {WordMakeNumber(ResetLogs(ctx), ToNumber(host.n), i)} :
         /\ ctx' = r.c
         /\ out' = << [n |-> host.n, fix |-> r.fix, word |-> r.word,
                       obj |-> r.v, allocs |-> Len(r.c.alog)] >>
  /\ UNCHANGED host

NextNum == ApiMakeNumber

SpecNum == InitNum /\ [][NextNum]_vars


(***************************************************************************)
(* analyze as a function of the form and the bound list: a client reads a  *)
(* form, builds two bound lists, the names of the first among the names of *)
(* the second, and calls analyze with each of them and an empty free list. *)
(***************************************************************************)
AnForms ==
  << << "(", "+", "x", "y", ")" >>,
     << "(", "do", "(", "let", "x", "1", ")", "(", "+", "x", "y", ")", "x", ")" >>,
     << "(", "do", "x", "(", "let", "x", "y", ")", "x", "y", ")" >>,
     << "(", "fn", "(", "x", ")", "(", "+", "x", "y", "z", ")", ")" >>,
     << "(", "fn", "(", "x", ")",
             "(", "fn", "(", "y", ")", "(", "+", "x", "y", "z", ")", ")", ")" >>,
     << "(", "f", "(", "quote", "(", "x", "y", ")", ")", "z", "z", ")" >>,
     << "(", "do", "(", "let", "y", "(", "mac", "(", "x", ")",
                                   "(", "g", "x", "z", ")", ")", ")",
                   "(", "y", "x", ")", "(", "y", "x", ")", ")" >>,
     << "(", "x", "x", "y", "y", ")" >> >>

AnNames == << "x", "y", "z", "g" >>
AnArena == 400

\* the list of the symbols named by the members of `idx`, in the order of
\* AnNames
RECURSIVE SymList(_, _, _, _)
SymList__2(c, idx, i, acc, s, k) ==
  SymList(k.c, idx, i - 1, k.v)
SymList__1(c, idx, i, acc, s) ==
  SymList__2(c, idx, i, acc, s,
    fe_cons(s.c, s.v, acc))
SymList(c, idx, i, acc) ==
  CASE i = 0 -> [c |-> c, v |-> acc, bad |-> c.err # ""]
    [] i \notin idx -> SymList(c, idx, i - 1, acc)
    [] OTHER -> SymList__1(c, idx, i, acc,
           fe_symbol(c, AnNames[i]))

\* the names of the symbols of a list, first to last
SymNames__1(c, list, cells) ==
  [i \in 1..Len(cells) |-> StrData(c, car(c, cdr(c, car(c, cells[i]))))]
SymNames(c, list) ==
  SymNames__1(c, list,
    ListCells(c, list, << >>))

AnalyzeBoth__5(c, form, b, b2, r, l1, l2, a1, a2) ==
  [c |-> a2.c, small |-> SymNames(a2.c, a1.fv), large |-> SymNames(a2.c, a2.fv), bad |-> a2.c.err # ""]
AnalyzeBoth__4(c, form, b, b2, r, l1, l2, a1) ==
  AnalyzeBoth__5(c, form, b, b2, r, l1, l2, a1,
    analyze(a1.c, r.v, l2.v, NIL))
AnalyzeBoth__3(c, form, b, b2, r, l1, l2) ==
  AnalyzeBoth__4(c, form, b, b2, r, l1, l2,
    analyze(l2.c, r.v, l1.v, NIL))
AnalyzeBoth__2(c, form, b, b2, r, l1) ==
  AnalyzeBoth__3(c, form, b, b2, r, l1,
    SymList(l1.c, b2, Len(AnNames), NIL))
AnalyzeBoth__1(c, form, b, b2, r) ==
  AnalyzeBoth__2(c, form, b, b2, r,
    SymList(r.c, b, Len(AnNames), NIL))
AnalyzeBoth(c, form, b, b2) ==
  AnalyzeBoth__1(c, form, b, b2,
    fe_read(c, form, 1))

InitAn ==
  /\ ctx = fe_open(Process0, AnArena, NULLP)
  /\ \E f \in DOMAIN AnForms, b2 \in SUBSET DOMAIN AnNames :
       \E b \in SUBSET b2 : host = [form |-> f, b |-> b, b2 |-> b2]
  /\ out = << >>

ApiAnalyze ==
  /\ out = << >>
  /\ \E r \in {AnalyzeBoth(ResetLogs(ctx), AnForms[host.form], host.b, host.b2)} :
       /\ ctx' = r.c
       /\ out' = << [small |-> r.small, large |-> r.large, err |-> r.c.err,
                     collections |-> Len(r.c.gclog)] >>
  /\ UNCHANGED host

NextAn == ApiAnalyze

SpecAn == InitAn /\ [][NextAn]_vars


(***************************************************************************)
(* The loop of main() on module forms, in arenas small enough for          *)
(* collections to run inside the forms.  For each input the loop records   *)
(* the allocations of the input that collected, and after an error the     *)
(* call-trail that the handler received, written element by element.       *)
(***************************************************************************)
ModInputs ==
  << \* 1: a module with two exports
     << "(", "module", "\"m\"", "(", "do",
        "(", "export", "(", "let", "a", "1", ")", ")",
        "(", "export", "(", "let", "b", "2", ")", ")", ")", ")" >>,
     \* 2: the exports of the module of input 1
     << "(", "list", "(", "get", "m", "a", ")", "(", "get", "m", "b", ")", ")" >>,
     \* 3: a module inside a module, with exports before and after it
     << "(", "module", "\"o\"", "(", "do",
        "(", "export", "(", "let", "c", "3", ")", ")",
        "(", "module", "\"i\"", "(", "export", "(", "let", "d", "4", ")", ")", ")",
        "(", "export", "(", "let", "e", "5", ")", ")", ")", ")" >>,
     \* 4: the exports of the modules of input 3
     << "(", "list", "(", "get", "o", "c", ")", "(", "get", "o", "e", ")",
        "(", "get", "i", "d", ")", "(", "get", "o", "d", ")", ")" >>,
     \* 5: a module whose body raises an error after an export
     << "(", "module", "\"e\"", "(", "do",
        "(", "export", "(", "let", "q", "1", ")", ")",
        "(", "car", "1", ")", ")", ")" >>,
     \* 6: a call of a macro
     << "(", "do",
        "(", "=", "m2", "(", "mac", "(", "x", ")",
             "(", "list", "'", "+", "x", "1", ")", ")", ")",
        "(", "m2", "5", ")", ")" >> >>

MinModArena == 217
MaxModArena == 224
ModArenaSizes == MinModArena..MaxModArena
MaxModInputs == 2

\* the call-trail given to the handler, each element as fe_write writes it
TrailText(c) ==
  [j \in DOMAIN c.errcl |-> fe_write(c, c.errcl[j], FALSE, Len(c.mem))]

InitMod ==
  /\ \E n \in ModArenaSizes : ctx = fe_open(Process0, n, NULLP)
  /\ host = [gc |-> GcBase(ctx)]
  /\ out = << >>

ModRepl(p) ==
  /\ ~Stopped(ctx)
  /\ Len(out) < MaxModInputs
  /\ \E r \in {ReplStep(ResetLogs(ctx), host.gc, ModInputs[p])} :
       /\ ctx' = onerror(r.c)
       /\ out' = Append(out, [input |-> p, err |-> r.c.err, text |-> r.text,
                              before |-> ctx.modulestack,
                              after |-> r.c.modulestack,
                              trail |-> IF r.bad THEN TrailText(r.c)
                                        ELSE << >>,
                              allocs |-> Len(r.c.alog),
                              gcs |-> { j \in DOMAIN r.c.alog :
                                          r.c.alog[j].collected }])
  /\ UNCHANGED host

NextMod == \E p \in 1..Len(ModInputs) : ModRepl(p)

SpecMod == InitMod /\ [][NextMod]_vars

(***************************************************************************)
(* A client of both interfaces on one context: fe_open, the set-up of      *)
(* FeX, then in any order expressions given to fe_read and fe_eval and     *)
(* lines given to fex_do_string, with the handler of the loop of main,     *)
(* and at the end fe_close.                                                *)
(***************************************************************************)
LangInputs ==
  << \* 1: a module with two exports
     << "(", "module", "\"m\"", "(", "do",
        "(", "export", "(", "let", "a", "1", ")", ")",
        "(", "export", "(", "let", "b", "2", ")", ")", ")", ")" >>,
     \* 2: the exports of the module of input 1
     << "(", "list", "(", "get", "m", "a", ")", "(", "get", "m", "b", ")", ")" >>,
     \* 3: an export at top level
     << "(", "export", "(", "let", "z", "1", ")", ")" >>,
     \* 4: a module whose body raises an error after an export
     << "(", "module", "\"e\"", "(", "do",
        "(", "export", "(", "let", "q", "1", ")", ")",
        "(", "car", "1", ")", ")", ")" >>,
     \* 5: an if whose only condition is false and whose else is false
     << "(", "if", "false", "1", "false", ")" >>,
     \* 6: an if with two conditions, the second one true, and an else
     \* that would raise an error
     << "(", "if", "nil", "1", "2", "3", "(", "car", "1", ")", ")" >>,
     \* 7: an if with no truthy condition and no else
     << "(", "if", "false", "1", "nil", "2", ")" >>,
     \* 8: dotted parameters with arguments left for the tail
     << "(", "(", "fn", "(", "a", ".", "rest", ")", "rest", ")",
        "1", "2", "3", ")" >>,
     \* 9: dotted parameters with no argument left for the tail
     << "(", "(", "fn", "(", "a", ".", "rest", ")", "rest", ")", "1", ")" >>,
     \* 10: a let that is one statement of a do at top level
     << "(", "do", "(", "let", "w", "5", ")", "1", ")" >>,
     \* 11: the name bound by input 10
     << "w" >>,
     \* 12: a let at top level
     << "(", "let", "v", "6", ")" >>,
     \* 13: the name bound by input 12
     << "v" >> >>

LangLines ==
  << \* 1: the module of the language guide
     << "module", "\"m\"", "{",
          "export", "let", "answer", "=", "42", ";",
          "export", "fn", "twice", "(", "x", ")", "{",
             "return", "x", "*", "2", ";", "}", "}",
        "m", ".", "answer", ";", "m", ".", "twice", "(", "21", ")", ";" >>,
     \* 2: a let that is one statement of a program of two statements
     << "let", "u", "=", "5", ";", "1", ";" >>,
     \* 3: the name bound by line 2
     << "u", ";" >>,
     \* 4: a module whose body raises an error after an export
     << "module", "(", "\"e\"", ")", "{",
          "export", "let", "q", "=", "1", ";",
          "car", "(", "1", ")", ";", "}" >>,
     \* 5: an export at the top level
     << "export", "let", "z", "=", "1", ";" >> >>

LangArena == 400
MaxLangInputs == 2

InitLang ==
  /\ \E c0 \in {fe_open(Process0, LangArena, NULLP)} :
       \E c1 \in {fex_init_with_config(c0, TRUE)} :
         ctx = [c1 EXCEPT !.handler = "on_error"]
  /\ host = [gc |-> fe_savegc(ctx), closed |-> FALSE]
  /\ out = << >>

\* fe_restoregc(ctx, gc); fe_read; fe_eval; fe_write
LangRepl(p) ==
  /\ ~Stopped(ctx)
  /\ ~host.closed
  /\ Len(out) < MaxLangInputs
  /\ \E r \in {ReplStep(ResetLogs(ctx), host.gc, LangInputs[p])} :
       /\ ctx' = onerror(r.c)
       /\ out' = Append(out, [input |-> p, fex |-> FALSE, err |-> r.c.err,
                              text |-> r.text, compiled |-> TRUE,
                              prd |-> r.c.prd])
  /\ UNCHANGED host

\* fex_do_string; fe_write
LangLine(p) ==
  /\ ~Stopped(ctx)
  /\ ~host.closed
  /\ Len(out) < MaxLangInputs
  /\ \E r \in {FexLine(ResetLogs(ctx), LangLines[p])} :
       /\ ctx' = onerror(r.c)
       /\ out' = Append(out, [input |-> p, fex |-> TRUE, err |-> r.c.err,
                              text |-> r.text, compiled |-> ~r.c.P.had_error,
                              prd |-> r.c.prd])
  /\ UNCHANGED host

\* fe_close(ctx)
LangClose ==
  /\ ~Stopped(ctx)
  /\ ~host.closed
  /\ ctx' = fe_close(ResetLogs(ctx))
  /\ host' = [host EXCEPT !.closed = TRUE]
  /\ UNCHANGED out

NextLang ==
  \/ \E p \in 1..Len(LangInputs) : LangRepl(p)
  \/ \E p \in 1..Len(LangLines) : LangLine(p)
  \/ LangClose

SpecLang == InitLang /\ [][NextLang]_vars

(***************************************************************************)
(* fe_write and fe_read as functions of texts.  A text is a sequence of    *)
(* characters and a value is a term: <<"nil">>, <<"bool", b>>,             *)
(* <<"fix", n>>, <<"sym", name>>, <<"str", chars>>, <<"pair", car, cdr>>.  *)
(* The cells of the values are not modelled here.  A client builds a       *)
(* value, writes it with the strings quoted, and reads the text back.      *)
(***************************************************************************)
NilV == << "nil" >>
BoolV(b) == << "bool", b >>
FixV(n) == << "fix", n >>
SymV(name) == << "sym", name >>
StrV(chars) == << "str", chars >>
PairV(a, d) == << "pair", a, d >>

FrameName == << "[", "f", "r", "a", "m", "e", "]" >>
Digits == << "0", "1", "2", "3", "4", "5", "6", "7", "8", "9" >>

\* sprintf(buf, "%lld", n)
RECURSIVE DecimalChars(_)
DecimalChars(n) ==
  CASE n < 0 -> << "-" >> \o DecimalChars(0 - n)
    [] n < 10 -> << Digits[n + 1] >>
    [] OTHER -> DecimalChars(n \div 10) \o << Digits[(n % 10) + 1] >>

\* the loop of case FE_TSTRING with qt set: a backslash before every `"`
RECURSIVE QuotedChars(_)
QuotedChars(p) ==
  CASE p = << >> -> << >>
    [] Head(p) = "\"" -> << "\\", "\"" >> \o QuotedChars(Tail(p))
    [] OTHER -> << Head(p) >> \o QuotedChars(Tail(p))

RECURSIVE WriteText(_, _)
RECURSIVE WriteTail(_)

\* the loop of case FE_TPAIR after the first element, and the dotted end
WriteTail(obj) ==
  CASE obj[1] = "pair" -> << " " >> \o WriteText(obj[2], TRUE) \o WriteTail(obj[3])
    [] obj[1] = "nil" -> << >>
    [] OTHER -> << " ", ".", " " >> \o WriteText(obj, TRUE)

WriteText(obj, qt) ==
  CASE obj[1] = "nil" -> << "n", "i", "l" >>
    [] obj[1] = "bool" ->
         IF obj[2] THEN << "t", "r", "u", "e" >> ELSE << "f", "a", "l", "s", "e" >>
    [] obj[1] = "fix" -> DecimalChars(obj[2])
    [] obj[1] = "pair" /\ obj[2] = SymV(FrameName) ->
         << "[", "e", "n", "v", " ", "f", "r", "a", "m", "e", "]" >>
    [] obj[1] = "pair" ->
         << "(" >> \o WriteText(obj[2], TRUE) \o WriteTail(obj[3]) \o << ")" >>
    [] obj[1] = "sym" -> obj[2]
    [] obj[1] = "str" /\ qt -> << "\"" >> \o QuotedChars(obj[2]) \o << "\"" >>
    [] OTHER -> obj[2]

\* the character at position i, "" for the '\0' at the end of the text
CharAt(s, i) == IF i \in 1..Len(s) THEN s[i] ELSE ""

Whitespace == {" ", "\n", "\t", "\r"}
Delimiter == Whitespace \cup {"(", ")", ";"}
SymbolBufSize == 64

\* while (chr && strchr(" \n\t\r", chr)) chr = fn(ctx, udata);
RECURSIVE SkipSpace(_, _)
SkipSpace(s, i) ==
  IF CharAt(s, i) \in Whitespace THEN SkipSpace(s, i + 1) ELSE i

\* while (chr && chr != '\n') chr = fn(ctx, udata);
RECURSIVE SkipLine(_, _)
SkipLine(s, i) ==
  IF CharAt(s, i) = "" \/ CharAt(s, i) = "\n" THEN i ELSE SkipLine(s, i + 1)

\* do { ... } while (chr && !strchr(delimiter, chr)): the position of the
\* character that ends the token (it is kept in ctx->nextchr)
RECURSIVE TokenEnd(_, _)
TokenEnd(s, j) ==
  IF CharAt(s, j) = "" \/ CharAt(s, j) \in Delimiter THEN j
  ELSE TokenEnd(s, j + 1)

IsDigit(ch) == \E d \in 1..Len(Digits) : Digits[d] = ch
DigitValue(ch) == (CHOOSE d \in 1..Len(Digits) : Digits[d] = ch) - 1

\* strtod reads the whole token: an optional sign and decimal digits (the
\* names of the values hold no other text that strtod reads as a number)
IsInteger(tok) ==
  /\ tok # << >>
  /\ IF tok[1] \in {"-", "+"}
     THEN Len(tok) > 1 /\ \A k \in 2..Len(tok) : IsDigit(tok[k])
     ELSE \A k \in 1..Len(tok) : IsDigit(tok[k])

RECURSIVE DigitsValue(_, _)
DigitsValue(tok, acc) ==
  IF tok = << >> THEN acc
  ELSE DigitsValue(Tail(tok), acc * 10 + DigitValue(Head(tok)))

IntegerValue(tok) ==
  CASE tok[1] = "-" -> 0 - DigitsValue(Tail(tok), 0)
    [] tok[1] = "+" -> DigitsValue(Tail(tok), 0)
    [] OTHER -> DigitsValue(tok, 0)

\* what read_ returns: a value, &rparen, NULL at the end of the text, or an
\* error; pos is the next character to read
ReadOk(v, pos) == [k |-> "ok", v |-> v, pos |-> pos]
ReadRparen(pos) == [k |-> "rparen", v |-> NilV, pos |-> pos]
ReadNull(pos) == [k |-> "null", v |-> NilV, pos |-> pos]
ReadError(msg, pos) == [k |-> msg, v |-> NilV, pos |-> pos]

\* the list `res` with *tail = d
RECURSIVE MakeList(_, _)
MakeList(elems, d) ==
  IF elems = << >> THEN d ELSE PairV(Head(elems), MakeList(Tail(elems), d))

\* the default case with the token s[i..j-1]
ReadToken(s, i, j, tok) ==
  CASE j - i > SymbolBufSize - 1 -> ReadError("symbol too long", j)
    [] IsInteger(tok) -> ReadOk(FixV(IntegerValue(tok)), j)
    [] tok = << "n", "i", "l" >> -> ReadOk(NilV, j)
    [] tok = << "t", "r", "u", "e" >> -> ReadOk(BoolV(TRUE), j)
    [] tok = << "f", "a", "l", "s", "e" >> -> ReadOk(BoolV(FALSE), j)
    [] OTHER -> ReadOk(SymV(tok), j)

\* if (chr=='n') chr='\n'; else if (chr=='r') chr='\r'; else if (chr=='t') chr='\t';
Unescaped(ch) ==
  CASE ch = "n" -> "\n" [] ch = "r" -> "\r" [] ch = "t" -> "\t" [] OTHER -> ch

\* case '"': the loop, with the characters stored so far
RECURSIVE ReadStringText(_, _, _)
ReadStringText(s, i, buf) ==
  CASE CharAt(s, i) = "\"" -> ReadOk(StrV(buf), i + 1)
    [] CharAt(s, i) = "" -> ReadError("unclosed string", i)
    [] CharAt(s, i) = "\\" /\ CharAt(s, i + 1) = "" ->
         ReadError("unclosed string", i + 1)
    [] CharAt(s, i) = "\\" ->
         ReadStringText(s, i + 2, Append(buf, Unescaped(CharAt(s, i + 1))))
    [] OTHER -> ReadStringText(s, i + 1, Append(buf, CharAt(s, i)))

RECURSIVE ReadText(_, _)
RECURSIVE ReadListText(_, _, _, _)

\* fe_read: read_, and an error for a `)` that closes nothing
FeReadEnd(r) == IF r.k = "rparen" THEN ReadError("stray ')'", r.pos) ELSE r
FeReadText(s, i) == FeReadEnd(ReadText(s, i))

\* the dotted pair: *tail = fe_read(ctx, fn, udata); at the end of the text
\* *tail is NULL, which the loop reads next
ReadDotted(s, elems, d) ==
  CASE d.k = "ok" -> ReadListText(s, d.pos, elems, d.v)
    [] d.k = "null" -> ReadError("unclosed list", d.pos)
    [] OTHER -> d

\* one pass of the loop of case '(': `elems` are the elements of res and
\* `last` is *tail
ReadListStep(s, elems, last, r) ==
  CASE r.k = "rparen" -> ReadOk(MakeList(elems, last), r.pos)
    [] r.k = "null" -> ReadError("unclosed list", r.pos)
    [] r.k # "ok" -> r
    [] r.v = SymV(<< "." >>) -> ReadDotted(s, elems, FeReadText(s, r.pos))
    [] OTHER -> ReadListText(s, r.pos, Append(elems, r.v), NilV)

ReadListText(s, i, elems, last) ==
  ReadListStep(s, elems, last, ReadText(s, i))

\* case '\'': (quote v)
ReadQuoted(v) ==
  CASE v.k = "ok" -> ReadOk(PairV(SymV(<< "q", "u", "o", "t", "e" >>),
                                  PairV(v.v, NilV)), v.pos)
    [] v.k = "null" -> ReadError("stray '''", v.pos)
    [] OTHER -> v

\* the switch of read_ on the character at i
ReadAt(s, i) ==
  CASE CharAt(s, i) = "" -> ReadNull(i)
    [] CharAt(s, i) = ";" -> ReadText(s, SkipLine(s, i) + 1)
    [] CharAt(s, i) = ")" -> ReadRparen(i + 1)
    [] CharAt(s, i) = "(" -> ReadListText(s, i + 1, << >>, NilV)
    [] CharAt(s, i) = "'" -> ReadQuoted(FeReadText(s, i + 1))
    [] CharAt(s, i) = "\"" -> ReadStringText(s, i + 1, << >>)
    [] OTHER -> ReadToken(s, i, TokenEnd(s, i + 1),
                          SubSeq(s, i, TokenEnd(s, i + 1) - 1))

ReadText(s, i) == ReadAt(s, SkipSpace(s, i))

\* the values of the client: atoms, and pairs built from them
StringChars == {"n", "\\", "\""}
MaxStringLen == 2
MaxPairs == 2
Strings ==
  UNION { [1..n -> StringChars] : n \in 0..MaxStringLen }
Atoms ==
  {NilV, BoolV(TRUE), BoolV(FALSE), FixV(0), FixV(7), FixV(0 - 13),
   SymV(<< "a" >>), SymV(FrameName)} \cup { StrV(p) : p \in Strings }
ConsAtoms ==
  {NilV, FixV(7), SymV(<< "a" >>), SymV(FrameName), StrV(<< >>),
   StrV(<< "\"" >>)}

InitText ==
  /\ ctx = Process0
  /\ \E x \in Atoms : host = [x |-> x, pairs |-> 0]
  /\ out = << >>

\* fe_cons(ctx, a, x)
TextCons(a) ==
  /\ host.pairs < MaxPairs
  /\ host' = [x |-> PairV(a, host.x), pairs |-> host.pairs + 1]
  /\ out' = << >>
  /\ UNCHANGED ctx

\* fe_cons(ctx, x, a)
TextConsUnder(a) ==
  /\ host.pairs < MaxPairs
  /\ host' = [x |-> PairV(host.x, a), pairs |-> host.pairs + 1]
  /\ out' = << >>
  /\ UNCHANGED ctx

\* fe_write(ctx, x, fn, udata, 1), then fe_read of the text written
WriteRead ==
  /\ out = << >>
  /\ out' = << [text |-> WriteText(host.x, TRUE),
                back |-> FeReadText(WriteText(host.x, TRUE), 1)] >>
  /\ UNCHANGED << ctx, host >>

NextText ==
  \/ \E a \in ConsAtoms : TextCons(a)
  \/ \E a \in ConsAtoms : TextConsUnder(a)
  \/ WriteRead

SpecText == InitText /\ [][NextText]_vars

(***************************************************************************)
(* The lexer of FeX over the characters of a source text.  L is the Lexer  *)
(* (start, current and line_start are positions in the text, from 1), a    *)
(* token holds its type, start, length, line and column; `first` is the    *)
(* position in the source where the token began (for an error token start  *)
(* points to the message, not into the source).                            *)
(***************************************************************************)
Letters ==
  {"a", "b", "c", "d", "e", "f", "g", "h", "i", "j", "k", "l", "m", "n", "o",
   "p", "q", "r", "s", "t", "u", "v", "w", "x", "y", "z",
   "A", "B", "C", "D", "E", "F", "G", "H", "I", "J", "K", "L", "M", "N", "O",
   "P", "Q", "R", "S", "T", "U", "V", "W", "X", "Y", "Z"}
isalpha(ch) == ch \in Letters

init_lexer ==
  [start |-> 1, current |-> 1, line_start |-> 1, line |-> 1, had_error |-> FALSE]

is_at_end(s, L) == CharAt(s, L.current) = ""

make_token(s, L, ty) ==
  [type |-> ty, start |-> L.start, length |-> L.current - L.start,
   line |-> L.line, column |-> (L.start - L.line_start) + 1,
   message |-> "", first |-> L.start]

\* token.column is not set: the action that takes the token draws it
error_token(L, message) ==
  [type |-> "TOKEN_ERROR", start |-> 0, length |-> 0,
   line |-> L.line, column |-> 0, message |-> message, first |-> L.start]

Scanned(L, tok) == [L |-> L, tok |-> tok]

advance(s, L) ==
  [L EXCEPT !.current = L.current + 1,
            !.line = IF CharAt(s, L.current) = "\n" THEN L.line + 1 ELSE L.line,
            !.line_start = IF CharAt(s, L.current) = "\n" THEN L.current + 1
                           ELSE L.line_start]

\* while (*L.current != '\n' && !is_at_end()) advance();
RECURSIVE SkipComment(_, _)
SkipComment(s, L) ==
  IF CharAt(s, L.current) # "\n" /\ ~is_at_end(s, L)
  THEN SkipComment(s, advance(s, L)) ELSE L

RECURSIVE skip_whitespace(_, _)
skip_whitespace(s, L) ==
  CASE CharAt(s, L.current) \in {" ", "\r", "\t"} ->
         skip_whitespace(s, advance(s, L))
    [] CharAt(s, L.current) = "\n" ->
         skip_whitespace(s, advance(s, [L EXCEPT !.line = L.line + 1]))
    [] CharAt(s, L.current) = "/" /\ CharAt(s, L.current + 1) = "/" ->
         skip_whitespace(s, SkipComment(s, L))
    [] OTHER -> L

Keywords ==
  [type : {"TOKEN_AND"}, text : {<< "a", "n", "d" >>}] \cup
  [type : {"TOKEN_ELSE"}, text : {<< "e", "l", "s", "e" >>}] \cup
  [type : {"TOKEN_EXPORT"}, text : {<< "e", "x", "p", "o", "r", "t" >>}] \cup
  [type : {"TOKEN_FALSE"}, text : {<< "f", "a", "l", "s", "e" >>}] \cup
  [type : {"TOKEN_FN"}, text : {<< "f", "n" >>}] \cup
  [type : {"TOKEN_IMPORT"}, text : {<< "i", "m", "p", "o", "r", "t" >>}] \cup
  [type : {"TOKEN_IF"}, text : {<< "i", "f" >>}] \cup
  [type : {"TOKEN_LET"}, text : {<< "l", "e", "t" >>}] \cup
  [type : {"TOKEN_MODULE"}, text : {<< "m", "o", "d", "u", "l", "e" >>}] \cup
  [type : {"TOKEN_NIL"}, text : {<< "n", "i", "l" >>}] \cup
  [type : {"TOKEN_OR"}, text : {<< "o", "r" >>}] \cup
  [type : {"TOKEN_RETURN"}, text : {<< "r", "e", "t", "u", "r", "n" >>}] \cup
  [type : {"TOKEN_TRUE"}, text : {<< "t", "r", "u", "e" >>}] \cup
  [type : {"TOKEN_WHILE"}, text : {<< "w", "h", "i", "l", "e" >>}]

identifier_type(text) ==
  IF \E k \in Keywords : k.text = text
  THEN (CHOOSE k \in Keywords : k.text = text).type
  ELSE "TOKEN_IDENTIFIER"

RECURSIVE lex_identifier(_, _)
lex_identifier(s, L) ==
  IF isalpha(CharAt(s, L.current)) \/ IsDigit(CharAt(s, L.current))
     \/ CharAt(s, L.current) = "_"
  THEN lex_identifier(s, advance(s, L))
  ELSE Scanned(L, make_token(s, L,
                 identifier_type(SubSeq(s, L.start, L.current - 1))))

\* while (isdigit(*L.current)) advance();
RECURSIVE SkipDigits(_, _)
SkipDigits(s, L) ==
  IF IsDigit(CharAt(s, L.current)) THEN SkipDigits(s, advance(s, L)) ELSE L

LexFraction(s, L) ==
  IF CharAt(s, L.current) = "." /\ IsDigit(CharAt(s, L.current + 1))
  THEN SkipDigits(s, advance(s, L)) ELSE L

LexNumberEnd(s, L) == Scanned(L, make_token(s, L, "TOKEN_NUMBER"))

lex_number(s, L) == LexNumberEnd(s, LexFraction(s, SkipDigits(s, L)))

LexStringEnd(s, L) == Scanned(L, make_token(s, L, "TOKEN_STRING"))

RECURSIVE lex_string(_, _)
lex_string(s, L) ==
  CASE CharAt(s, L.current) # "\"" /\ ~is_at_end(s, L) ->
         lex_string(s, advance(s,
           IF CharAt(s, L.current) = "\n" THEN [L EXCEPT !.line = L.line + 1]
           ELSE L))
    [] is_at_end(s, L) ->
         Scanned([L EXCEPT !.had_error = TRUE],
                 error_token(L, "Unterminated string."))
    [] OTHER -> LexStringEnd(s, advance(s, L))

SingleChar ==
  [ch : {"("}, type : {"TOKEN_LPAREN"}] \cup [ch : {")"}, type : {"TOKEN_RPAREN"}] \cup
  [ch : {"{"}, type : {"TOKEN_LBRACE"}] \cup [ch : {"}"}, type : {"TOKEN_RBRACE"}] \cup
  [ch : {"["}, type : {"TOKEN_LBRACKET"}] \cup [ch : {"]"}, type : {"TOKEN_RBRACKET"}] \cup
  [ch : {";"}, type : {"TOKEN_SEMICOLON"}] \cup [ch : {","}, type : {"TOKEN_COMMA"}] \cup
  [ch : {"."}, type : {"TOKEN_DOT"}] \cup [ch : {"-"}, type : {"TOKEN_MINUS"}] \cup
  [ch : {"+"}, type : {"TOKEN_PLUS"}] \cup [ch : {"/"}, type : {"TOKEN_SLASH"}] \cup
  [ch : {"*"}, type : {"TOKEN_STAR"}]
WithEqual ==
  [ch : {"!"}, type : {"TOKEN_BANG"}, eq : {"TOKEN_BANG_EQUAL"}] \cup
  [ch : {"="}, type : {"TOKEN_EQUAL"}, eq : {"TOKEN_EQUAL_EQUAL"}] \cup
  [ch : {"<"}, type : {"TOKEN_LESS"}, eq : {"TOKEN_LESS_EQUAL"}] \cup
  [ch : {">"}, type : {"TOKEN_GREATER"}, eq : {"TOKEN_GREATER_EQUAL"}]

\* make_token(match('=') ? eq : type)
MatchEqual(s, L, w) ==
  IF CharAt(s, L.current) = "="
  THEN Scanned([L EXCEPT !.current = L.current + 1],
               make_token(s, [L EXCEPT !.current = L.current + 1], w.eq))
  ELSE Scanned(L, make_token(s, L, w.type))

\* scan_token after `char c = advance()`: L is the lexer past c
ScanChar(s, L, c) ==
  CASE isalpha(c) \/ c = "_" -> lex_identifier(s, L)
    [] IsDigit(c) -> lex_number(s, L)
    [] \E t \in SingleChar : t.ch = c ->
         Scanned(L, make_token(s, L, (CHOOSE t \in SingleChar : t.ch = c).type))
    [] \E w \in WithEqual : w.ch = c ->
         MatchEqual(s, L, CHOOSE w \in WithEqual : w.ch = c)
    [] c = "\"" -> lex_string(s, L)
    [] OTHER -> Scanned([L EXCEPT !.had_error = TRUE],
                        error_token(L, "Unexpected character."))

\* scan_token after skip_whitespace
ScanStart(s, L) ==
  IF is_at_end(s, L) THEN Scanned(L, make_token(s, L, "TOKEN_EOF"))
  ELSE ScanChar(s, advance(s, L), CharAt(s, L.current))

SetStart(L) == [L EXCEPT !.start = L.current]

scan_token(s, L) == ScanStart(s, SetStart(skip_whitespace(s, L)))

\* the source texts: every text of up to MaxSourceLen characters
SourceChars == {"a", "1", " ", "\n", "/", "\"", ";"}
MaxSourceLen == 4
Sources == UNION { [1..n -> SourceChars] : n \in 0..MaxSourceLen }
\* what the unset column of an error token may hold
UnsetColumns == {0, 1}

InitLex ==
  /\ ctx = Process0
  /\ \E s \in Sources : host = [source |-> s, L |-> init_lexer]
  /\ out = << >>

\* advance_parser: the next token, until TOKEN_EOF has been taken
LexToken ==
  /\ IF out = << >> THEN TRUE ELSE out[Len(out)].type # "TOKEN_EOF"
  /\ \E col \in UnsetColumns :
       out' = Append(out,
                IF scan_token(host.source, host.L).tok.type = "TOKEN_ERROR"
                THEN [scan_token(host.source, host.L).tok EXCEPT !.column = col]
                ELSE scan_token(host.source, host.L).tok)
  /\ host' = [host EXCEPT !.L = scan_token(host.source, host.L).L]
  /\ UNCHANGED ctx

NextLex == LexToken

SpecLex == InitLex /\ [][NextLex]_vars

(***************************************************************************)
(* Properties.                                                             *)
(***************************************************************************)
\* the cells on the freelist of a snapshot of the arena
FreeCells(g) ==
  LET cells == ListCells(g, g.freelist, << >>)
  IN { cells[i] : i \in 1..Len(cells) }

\* the cell x has come through the collection g untouched
Preserved(g, onfree, x) ==
  /\ x \notin onfree
  /\ g.post.mem[x].tag # "free"
  /\ g.post.mem[x] = g.pre.mem[x]

Unrooted(j) ==
  { ctx.alog[i].cell : i \in 1..(j - 1) } \ SnapReach(ctx.alog[j].snap[1])

\* C2: during fex_compile, a cell of the returned AST that no root leads to at
\* some allocation is a cell that was handed out at that allocation or later:
\* every fragment built before an allocation is rooted at that allocation
C2_AstRooted ==
  \A j \in DOMAIN ctx.alog :
    ctx.alog[j].traced =>
      \A x \in Unrooted(j) \cap ctx.ast :
        \E k \in j..Len(ctx.alog) : ctx.alog[k].traced /\ ctx.alog[k].cell = x

\* the inputs with a return inside a while inside a function
ReturnInWhile == {1, 2}

\* C3: a call of a function whose body returns 7 from inside a while loop
\* terminates and yields 7
C3_ReturnEndsLoop ==
  \A i \in DOMAIN out :
    out[i].input \in ReturnInWhile =>
      \/ out[i].err = "out of memory"
      \/ out[i].err = "" /\ out[i].text = "7"

\* C4: the counter closure over n yields 1, 2, 3 on three calls, and 4 on a
\* call made by the next input: the assignment in the body reaches the binding
\* cell of the defining scope
C4_CounterShares ==
  \A i \in DOMAIN out :
    /\ out[i].input = 1 =>
         \/ out[i].err = "out of memory"
         \/ out[i].err = "" /\ out[i].text = "(1 2 3)"
    /\ (out[i].input = 6 /\ i > 1 /\ out[i - 1].input = 1 /\ out[i - 1].err = "") =>
         \/ out[i].err = "out of memory"
         \/ out[i].err = "" /\ out[i].text = "4"

\* the counter has been called three times while a collection ran, and a
\* fourth time by the next input
C4_Witness ==
  /\ Len(out) >= 2
  /\ out[1].input = 1 /\ out[1].text = "(1 2 3)" /\ out[1].collections > 0
  /\ out[2].input = 6 /\ out[2].text = "4"

\* C5: a macro call cell is expanded once: no call cell is expanded twice
\* within an input, the cell holds the car and the cdr of the form the macro
\* body produced, the two calls of the function with the macro call yield
\* (6 6) after one expansion, and two more calls by the next input yield (6 6)
\* with no expansion
C5_ExpandedOnce ==
  /\ \A i, j \in DOMAIN ctx.mlog : i # j => ctx.mlog[i] # ctx.mlog[j]
  /\ \A i \in DOMAIN ctx.xlog :
       LET e == ctx.xlog[i]
       IN car(ctx, e.cell) = e.car /\ cdr(ctx, e.cell) = e.cdr
  /\ \A i \in DOMAIN out :
       /\ out[i].input = 4 =>
            \/ out[i].err = "out of memory"
            \/ out[i].err = "" /\ out[i].text = "(6 6)" /\ out[i].expansions = 1
       /\ (out[i].input = 8 /\ i > 1 /\ out[i - 1].input = 4 /\ out[i - 1].err = "") =>
            \/ out[i].err = "out of memory"
            \/ out[i].err = "" /\ out[i].text = "(6 6)" /\ out[i].expansions = 0

\* the macro call has been expanded by one input and evaluated again, twice,
\* by the next
C5_Witness ==
  /\ Len(out) >= 2
  /\ out[1].input = 4 /\ out[1].text = "(6 6)" /\ out[1].expansions = 1
  /\ out[2].input = 8 /\ out[2].text = "(6 6)" /\ out[2].expansions = 0

\* C6: every result and the state of context A are what they are in a process
\* where the same inputs are given to A and B is never opened
C6_Independent ==
  /\ out = host.refout
  /\ View(ContextA) = View(host.ref)

\* the names of the symbols on the symbol list, in the order of the list
SymlistNames(c) ==
  LET cells == ListCells(c, c.symlist, << >>)
  IN [i \in 1..Len(cells) |-> StrData(c, car(c, cdr(c, car(c, cells[i]))))]

\* C7: the symbol list holds at most one symbol per name, and fe_symbol has
\* returned one cell only for each name
C7_OneCellPerName ==
  LET names == SymlistNames(ctx)
  IN /\ \A i, j \in DOMAIN names : i # j => names[i] # names[j]
     /\ \A e1, e2 \in ctx.syms : e1.name = e2.name => e1.cell = e2.cell

\* fe_symbol has returned the cell of a name for a second time, after an input
\* during which the context was collected
C7_Witness ==
  /\ \E e \in ctx.syms : e.again /\ e.name = "mk"
  /\ \E i \in DOMAIN out : out[i].collections > 0 /\ out[i].err = ""
  /\ Len(out) = 2 /\ out[1].input = 1 /\ out[2].input = 1

\* C8: an allocation collects if and only if the count of allocations since
\* the last collection exceeds the threshold or the freelist is empty
C8_CollectIffExceeds ==
  \A i \in DOMAIN ctx.alog :
    LET e == ctx.alog[i]
    IN e.collected <=> (e.allocs > e.threshold \/ isnil(e.freelist))

\* the cells of the arena of c
ArenaCells(c) == c.base + 1 .. c.base + c.object_count

\* C9: an allocation that raises "out of memory" has collected, has found the
\* freelist empty afterwards, and every cell of the arena was one the roots
\* led to
C9_OomOnlyWhenFull ==
  \A i \in DOMAIN ctx.alog :
    LET e == ctx.alog[i]
    IN e.oom =>
         /\ e.collected
         /\ isnil(e.free_after)
         /\ ArenaCells(ctx) \subseteq SnapReach(ctx.gclog[e.gc].pre)

\* C10: the depth of the root stack is within 0..GCSTACKSIZE; a push of a cell
\* at depth GCSTACKSIZE raises "gc stack overflow" and leaves the stack as it
\* was, a push of a cell at a lower depth raises nothing and appends the cell
C10_RootStackBounded ==
  /\ Len(ctx.gcstack) \in 0..GCSTACKSIZE
  /\ \A i \in DOMAIN out :
       LET e == out[i]
       IN IsCell(ctx, e.obj) =>
            IF Len(e.before) = GCSTACKSIZE
            THEN e.err = "gc stack overflow" /\ e.after = e.before
            ELSE e.err = "" /\ e.after = Append(e.before, e.obj)

\* a push of a cell has been refused at depth GCSTACKSIZE
C10_Witness ==
  /\ out # << >>
  /\ IsCell(ctx, out[1].obj)
  /\ Len(out[1].before) = GCSTACKSIZE
  /\ out[1].err = "gc stack overflow"
  /\ Len(ctx.gcstack) = GCSTACKSIZE

\* C22 as stated: fe_make_number(n) for an integer n in the fixnum range
\* [-2^(w-2), 2^(w-2)-1] allocates no cell and returns a word with low bit 1
\* whose unboxed value is n; for an integer n outside the range it returns a
\* NUMBER cell that holds n
C22_FixnumOrBoxed ==
  \A k \in DOMAIN out :
    LET o == out[k]
    IN IF o.n >= FixMin /\ o.n <= FixMax
       THEN /\ o.fix
            /\ WordIsFixnum(o.word)
            /\ WordUnbox(o.word) = o.n
            /\ o.allocs = 0
       ELSE /\ ~o.fix
            /\ type(ctx, o.obj) = "number"
            /\ cdr(ctx, o.obj) = o.n

\* the members of a sequence
Members(q) == { q[i] : i \in DOMAIN q }

\* C23: for bound sets B within B', every name of the free list analyze
\* computes with B' is in the free list it computes with B, and no name is in
\* a free list twice
C23_FreeVarsMonotone ==
  \A k \in DOMAIN out :
    /\ out[k].err = ""
    /\ Members(out[k].large) \subseteq Members(out[k].small)
    /\ Cardinality(Members(out[k].small)) = Len(out[k].small)
    /\ Cardinality(Members(out[k].large)) = Len(out[k].large)

\* the nested functions have been analyzed with nothing bound and with z
\* bound: z is free in the first analysis only, and no collection ran
C23_Witness ==
  /\ host.form = 5 /\ host.b = {} /\ host.b2 = {3}
  /\ Len(out) = 1
  /\ out[1].small = << "z", "+" >>
  /\ out[1].large = << "+" >>
  /\ out[1].collections = 0

\* C24 as stated: a function call replaces the result of its body by its cdr,
\* and a do stops early, only when a return form was evaluated: a call whose
\* body is the quoted list (return 1) yields (return 1), a do whose first
\* statement constructs (return 1) goes on and yields 2, and a call whose
\* body evaluates (return 5) yields 5
C24_ReturnOnlyWhenEvaluated ==
  \A i \in DOMAIN out :
    /\ out[i].input = 9 =>
         out[i].err = "out of memory" \/ out[i].text = "(return 1)"
    /\ out[i].input = 10 =>
         out[i].err = "out of memory" \/ out[i].text = "2"
    /\ out[i].input = 11 =>
         out[i].err = "out of memory" \/ out[i].text = "5"
\* C25: at every allocation made while the body of a fn/mac form is analysed,
\* every cell of the free-variable list built so far is reachable from the
\* roots, and a collection run by that allocation frees none of them
C25_FreeVarsRooted ==
  \A j \in DOMAIN ctx.alog :
    ctx.alog[j].fvs # {} =>
      /\ ctx.alog[j].fvs \subseteq SnapReach(ctx.alog[j].snap[1])
      /\ ctx.alog[j].gc # 0 =>
            \A x \in ctx.alog[j].fvs :
              ctx.gclog[ctx.alog[j].gc].post.mem[x].tag # "free"

\* C26: at every allocation made while the locals and the frame of a macro
\* application are built, every cell of its upvalue list is reachable from the
\* roots, and a collection run by that allocation frees none of them
C26_MacroUpvalsRooted ==
  \A j \in DOMAIN ctx.alog :
    ctx.alog[j].upv # {} =>
      /\ ctx.alog[j].upv \subseteq SnapReach(ctx.alog[j].snap[1])
      /\ ctx.alog[j].gc # 0 =>
            \A x \in ctx.alog[j].upv :
              ctx.gclog[ctx.alog[j].gc].post.mem[x].tag # "free"

\* C27: no two cells that are not FREE are STRING cells with the same buffer,
\* no buffer has been released twice, and no reachable STRING cell points to a
\* buffer that has been released
StringCells(c) ==
  { x \in Arena(c) : c.mem[x].tag = "string" /\ c.mem[x].cdr # NULLP }

C27_OneCellPerBuffer ==
  /\ \A x, y \in StringCells(ctx) :
        x # y => ctx.mem[x].cdr # ctx.mem[y].cdr
  /\ ctx.dfree = 0
  /\ \A x \in StringCells(ctx) \cap Reachable(ctx) :
        /\ IsBufPtr(ctx.mem[x].cdr)
        /\ BufId(ctx.mem[x].cdr) \in DOMAIN ctx.bufs
        /\ ctx.bufs[BufId(ctx.mem[x].cdr)].live

\* C28: between operations the cells of the freelist are distinct FREE cells
\* of the arena, the list ends at nil, and every FREE cell of the arena is on it
FreeTyped(c) == { x \in Arena(c) : c.mem[x].tag = "free" }

C28_FreelistPartition ==
  ctx.err # "SIGSEGV" =>
    \A fl \in {ListCells(ctx, ctx.freelist, << >>)} :
      /\ IF fl = << >> THEN isnil(ctx.freelist)
         ELSE isnil(cdr(ctx, fl[Len(fl)]))
      /\ \A cells \in {{ fl[i] : i \in 1..Len(fl) }} :
            /\ Cardinality(cells) = Len(fl)
            /\ cells = FreeTyped(ctx)

C21_RoundTrip ==
  out # << >> => out[1].back.k = "ok" /\ out[1].back.v = host.x

\* the newline characters of the text before position p
NewlinesBefore(s, p) == Cardinality({ i \in 1..(p - 1) : CharAt(s, i) = "\n" })

\* C30: the line of every token is 1 plus the number of newline characters
\* that precede the token's first character in the source text
C30_TokenLine ==
  \A i \in DOMAIN out :
    out[i].line = 1 + NewlinesBefore(host.source, out[i].first)

\* C11: the counter program of the language guide (line 3) is accepted by
\* fex_compile and fex_do_string on it yields 3
C11_CounterYieldsThree ==
  \A i \in DOMAIN out :
    out[i].input = 3 /\ out[i].err = "" =>
      out[i].compiled /\ out[i].text = "3"

\* C12: the module program of the language guide (line 1 of LangLines) is
\* accepted by fex_compile and, when no error is raised, it yields 42
C12_ModuleProgram ==
  \A i \in DOMAIN out :
    out[i].fex /\ out[i].input = 1 =>
      out[i].compiled /\ (out[i].err = "" => out[i].text = "42")

\* C13: a module form that completes normally leaves the module stack as it
\* was before the form and returns the list of the exports of its own body,
\* last export first; the list is the value of the symbol of the name, so that
\* get finds each export of the module and none of a module inside it; and so
\* it is when collections run at allocations of the form
C13_ModuleExports ==
  \A i \in DOMAIN out :
    out[i].err = "" =>
      /\ out[i].after = out[i].before
      /\ out[i].input = 1 => out[i].text = "((b . 2) (a . 1))"
      /\ out[i].input = 3 => out[i].text = "((e . 5) (c . 3))"
      /\ \A j \in 1..(i - 1) :
           out[j].err = "" /\ (\A k \in (j + 1)..(i - 1) : out[k].input = 5) =>
             /\ out[j].input = 1 /\ out[i].input = 2 => out[i].text = "(1 2)"
             /\ out[j].input = 3 /\ out[i].input = 4 =>
                  out[i].text = "(3 5 4 nil)"

\* a collection has run at one of the three allocations that intern the name
\* of the outer module of input 3, and get has then found the exports
C13_Witness ==
  /\ Len(out) = 2
  /\ out[1].input = 3 /\ out[1].err = ""
  /\ out[1].gcs \cap ((out[1].allocs - 2)..out[1].allocs) # {}
  /\ out[2].input = 4 /\ out[2].text = "(3 5 4 nil)"

\* C14: an export form that is evaluated at the top level, where no module
\* body is being evaluated, raises "export outside of module"
C14_ExportOutside ==
  \A i \in DOMAIN out :
    (out[i].input = 3 /\ ~out[i].fex) \/ (out[i].input = 5 /\ out[i].fex) =>
      out[i].err = "export outside of module"

\* C15: if yields the value of the branch of the first true condition, the
\* value of a trailing else whatever it is, and nil when there is none
C15_IfValue ==
  \A i \in DOMAIN out :
    ~out[i].fex /\ out[i].err = "" =>
      /\ out[i].input = 5 => out[i].text = "false"
      /\ out[i].input = 6 => out[i].text = "3"
      /\ out[i].input = 7 => out[i].text = "nil"

\* C16: a closure with the parameters (a . rest) applied to 1 2 3 yields (2 3)
\* and applied to 1 yields nil, and creating it has read only pair cells of
\* the parameter list
C16_DottedParams ==
  \A i \in DOMAIN out :
    ~out[i].fex /\ out[i].err = "" /\ out[i].input \in {8, 9} =>
      /\ out[i].input = 8 => out[i].text = "(2 3)"
      /\ out[i].input = 9 => out[i].text = "nil"
      /\ out[i].prd \subseteq {"pair"}

\* C17: a let at the top level, alone or as one statement of a program,
\* sets the global value of its name, which the next input reads
C17_TopLevelLet ==
  \A i \in DOMAIN out :
    i > 1 /\ out[i].err = "" /\ out[i - 1].err = "" =>
      /\ ~out[i].fex /\ ~out[i - 1].fex /\ out[i - 1].input = 10
           /\ out[i].input = 11 => out[i].text = "5"
      /\ ~out[i].fex /\ ~out[i - 1].fex /\ out[i - 1].input = 12
           /\ out[i].input = 13 => out[i].text = "6"
      /\ out[i].fex /\ out[i - 1].fex /\ out[i - 1].input = 2
           /\ out[i].input = 3 => out[i].text = "5"

\* C18: after fe_close every cell of the arena is typed FREE and on the
\* freelist, and the buffer of every cell that was a string when fe_close
\* was called has been released
C18_AllFreeAfterClose ==
  host.closed =>
    /\ FreeTyped(ctx) = Arena(ctx)
    /\ \A fl \in {ListCells(ctx, ctx.freelist, << >>)} :
         { fl[i] : i \in 1..Len(fl) } = Arena(ctx)
    /\ \A x \in Arena(ctx) :
         ctx.gclog[1].pre.mem[x].tag = "string" =>
           ~ctx.bufs[BufId(ctx.gclog[1].pre.mem[x].cdr)].live

\* C19: between inputs the call-trail is empty; every eval of a call that has
\* returned, a macro call included, left the call-trail as it was at its entry;
\* the pair being evaluated was the head of the call-trail; and the handler of
\* the error of input 5 received the trail of the three calls under way
C19_TrailRestored ==
  /\ ctx.calllist = << >>
  /\ \A e \in ctx.evd : e.restored
  /\ ctx.hd \subseteq {TRUE}
  /\ \A i \in DOMAIN out :
       out[i].input = 5 /\ out[i].err = "expected pair, got number" =>
         out[i].trail = << "(car 1)", "(do (export (let q 1)) (car 1))",
                           "(module \"e\" (do (export (let q 1)) (car 1)))" >>

\* an error inside three calls, then a macro call that has returned
C19_Witness ==
  /\ Len(out) = 2
  /\ out[1].input = 5 /\ Len(out[1].trail) = 3
  /\ out[2].input = 6 /\ out[2].text = "6"
  /\ \E e \in ctx.evd : e.kind = "macro" /\ e.restored
  /\ TRUE \in ctx.hd

\* C20: after every collection no cell of the arena has its mark bit set
C20_NoMarkAfterSweep ==
  \A j \in DOMAIN ctx.gclog : ctx.gclog[j].post.marked = {}

====
